---- MODULE Spec2Model ----
(***************************************************************************)
(* A model of janus, a generator of REST endpoints over one SQL table.     *)
(* Strings are TLA+ strings; Option<T> is a sequence of length 0 or 1;     *)
(* a FieldValue is a record [tag, val]; a KeyValue projection is a         *)
(* sequence of <<key, FieldValue>> pairs.                                  *)
(***************************************************************************)
EXTENDS Integers, Sequences, FiniteSets, TLC

\* ------------------------------------------------------------------ bounds
\* Row ids (uuid::Uuid::new_v4) are drawn from 1..MaxId.
MaxId == 2
\* Number of query parameters present in a request handed to read.
MaxPairs == 2

Ids == 1..MaxId
\* The instants chrono::Utc::now() returns.
Clock == {1}

None == <<>>
Some(x) == <<x>>
IsSome(o) == Len(o) = 1
Unwrap(o) == o[1]
Range(seq) == {seq[i] : i \in DOMAIN seq}

\* ------------------------------------------------------------ std strings
\* str::starts_with
starts_with(s, p) == Len(s) >= Len(p) /\ SubSeq(s, 1, Len(p)) = p

\* str::replace(p, ""): every non-overlapping occurrence of p is removed,
\* scanning from the left.
RECURSIVE replace_with_empty(_, _)
replace_with_empty(s, p) ==
    IF Len(s) < Len(p) THEN s
    ELSE IF starts_with(s, p)
         THEN replace_with_empty(SubSeq(s, Len(p) + 1, Len(s)), p)
         ELSE SubSeq(s, 1, 1) \o replace_with_empty(SubSeq(s, 2, Len(s)), p)

\* s.chars().take(n).collect()
chars_take(s, n) == SubSeq(s, 1, IF n < Len(s) THEN n ELSE Len(s))

\* &key[key.len() - 3..]
last3(key) == SubSeq(key, Len(key) - 2, Len(key))
\* &key[0..key.len() - 3]
strip3(key) == SubSeq(key, 1, Len(key) - 3)

\* ------------------------------------------------------------- FieldValue
FV_UUID(v) == [tag |-> "UUID", val |-> v]
FV_STRING(v) == [tag |-> "STRING", val |-> v]
FV_INTEGER(v) == [tag |-> "INTEGER", val |-> v]
FV_DATE(v) == [tag |-> "DATE", val |-> v]

\* ------------------------------------------------- the entity of the tests
table_name == "TestObjects"

\* TestObjectInputParams::verify
verify(p) == p.age > 0 /\ p.age < 100 /\ Len(p.name) > 0 /\ Len(p.name) < 50

\* add_set_values stamping the anonymous default whoever the caller is.
add_set_values_anonymous(p, user_id, id, now) ==
    [id |-> id, name |-> p.name, age |-> p.age, date_created |-> now,
     status |-> "active", user_id |-> "nobody"]

\* TestObjectInputParams::add_set_values; id and now are the values drawn by
\* Uuid::new_v4() and Utc::now().
add_set_values(p, user_id, id, now) ==
    [id |-> id, name |-> p.name, age |-> p.age, date_created |-> now,
     status |-> "active",
     user_id |-> IF IsSome(user_id) THEN Unwrap(user_id) ELSE "nobody"]

\* KeyValue for TestObject
key_value_pairs_object(o) ==
    << <<"id", FV_UUID(o.id)>>, <<"name", FV_STRING(o.name)>>,
       <<"age", FV_INTEGER(o.age)>>, <<"date_created", FV_DATE(o.date_created)>>,
       <<"status", FV_STRING(o.status)>>, <<"user_id", FV_STRING(o.user_id)>> >>

\* KeyValue for TestObjectInputParams
key_value_pairs_input(p) ==
    << <<"name", FV_STRING(p.name)>>, <<"age", FV_INTEGER(p.age)>> >>

\* KeyValue for TestObjectQueryParams: every field is an Option; only the
\* present ones are pushed, in declaration order.
QueryFields ==
    << <<"id", "UUID">>, <<"name", "STRING">>, <<"age", "INTEGER">>,
       <<"age_gt", "INTEGER">>, <<"age_lt", "INTEGER">>,
       <<"age_ge", "INTEGER">>, <<"age_le", "INTEGER">>,
       <<"status", "STRING">>, <<"date_created_gt", "DATE">>,
       <<"date_created_lt", "DATE">>, <<"order_by", "STRING">>,
       <<"order_dir", "STRING">> >>

RECURSIVE key_value_pairs_from(_, _)
key_value_pairs_from(q, i) ==
    IF i > Len(QueryFields) THEN <<>>
    ELSE LET f == QueryFields[i][1]
             rest == key_value_pairs_from(q, i + 1)
         IN IF IsSome(q[f])
            THEN << <<f, [tag |-> QueryFields[i][2], val |-> Unwrap(q[f])]>> >> \o rest
            ELSE rest

key_value_pairs_query(q) == key_value_pairs_from(q, 1)

\* ---------------------------------------------------------- query builders
\* read_predicate with the strict operators for _ge and _le.
read_predicate_strict(key, count) ==
    IF Len(key) < 3
    THEN key \o " = $" \o ToString(count) \o " AND "
    ELSE CASE last3(key) = "_gt" -> strip3(key) \o " > $" \o ToString(count) \o " AND "
           [] last3(key) = "_lt" -> strip3(key) \o " < $" \o ToString(count) \o " AND "
           [] last3(key) = "_ge" -> strip3(key) \o " > $" \o ToString(count) \o " AND "
           [] last3(key) = "_le" -> strip3(key) \o " < $" \o ToString(count) \o " AND "
           [] OTHER -> key \o " = $" \o ToString(count) \o " AND "

\* One iteration of the loop of read over a (key, value) pair.
read_predicate(key, count) ==
    IF Len(key) < 3
    THEN key \o " = $" \o ToString(count) \o " AND "
    ELSE CASE last3(key) = "_gt" -> strip3(key) \o " > $" \o ToString(count) \o " AND "
           [] last3(key) = "_lt" -> strip3(key) \o " < $" \o ToString(count) \o " AND "
           [] last3(key) = "_ge" -> strip3(key) \o " >= $" \o ToString(count) \o " AND "
           [] last3(key) = "_le" -> strip3(key) \o " <= $" \o ToString(count) \o " AND "
           [] OTHER -> key \o " = $" \o ToString(count) \o " AND "

\* read_step going on to the predicate after order_dir.
read_step_no_continue(st, kv) ==
    LET key == kv[1]
        value == kv[2]
        dir == IF key = "order_dir" /\ value.tag = "STRING" /\ value.val = "asc"
               THEN "ASC" ELSE st.order_dir
    IN IF key = "order_by"
       THEN IF value.tag = "STRING" THEN [st EXCEPT !.order_col = value.val] ELSE st
       ELSE [st EXCEPT !.query = @ \o read_predicate(key, st.count),
                       !.bindings = Append(@, value),
                       !.count = @ + 1,
                       !.order_dir = dir]

\* read_step without the increment of count.
read_step_same_index(st, kv) ==
    LET key == kv[1]
        value == kv[2]
    IN IF key = "order_by"
       THEN IF value.tag = "STRING" THEN [st EXCEPT !.order_col = value.val] ELSE st
       ELSE IF key = "order_dir"
       THEN IF value.tag = "STRING" /\ value.val = "asc"
            THEN [st EXCEPT !.order_dir = "ASC"] ELSE st
       ELSE [st EXCEPT !.query = @ \o read_predicate(key, st.count),
                       !.bindings = Append(@, value)]

read_step(st, kv) ==
    LET key == kv[1]
        value == kv[2]
    IN IF key = "order_by"
       THEN IF value.tag = "STRING" THEN [st EXCEPT !.order_col = value.val] ELSE st
       ELSE IF key = "order_dir"
       THEN IF value.tag = "STRING" /\ value.val = "asc"
            THEN [st EXCEPT !.order_dir = "ASC"] ELSE st
       ELSE [st EXCEPT !.query = @ \o read_predicate(key, st.count),
                       !.bindings = Append(@, value),
                       !.count = @ + 1]

RECURSIVE read_loop(_, _, _)
read_loop(st, pairs, i) ==
    IF i > Len(pairs) THEN st ELSE read_loop(read_step(st, pairs[i]), pairs, i + 1)

\* read: the statement text and the values bound to it, in binding order.
read(filters, user_id) ==
    LET st0 == [query |-> "SELECT * FROM " \o table_name \o " WHERE "
                          \o (IF IsSome(user_id) THEN "user_id = $1 AND " ELSE ""),
                count |-> IF IsSome(user_id) THEN 2 ELSE 1,
                order_col |-> "id", order_dir |-> "DESC", bindings |-> <<>>]
        st == read_loop(st0, filters, 1)
    IN [query |-> chars_take(st.query, Len(st.query) - 5)
                  \o " ORDER BY " \o st.order_col \o " " \o st.order_dir,
        bindings |-> (IF IsSome(user_id) THEN <<FV_STRING(Unwrap(user_id))>> ELSE <<>>)
                     \o st.bindings]

RECURSIVE create_columns(_, _)
create_columns(pairs, i) ==
    IF i > Len(pairs) THEN "" ELSE pairs[i][1] \o ", " \o create_columns(pairs, i + 1)

RECURSIVE placeholders(_, _)
placeholders(n, i) ==
    IF i > n THEN "" ELSE "$" \o ToString(i) \o ", " \o placeholders(n, i + 1)

values_of(pairs) == [i \in 1..Len(pairs) |-> pairs[i][2]]

\* create
create(values) ==
    LET part1 == "INSERT INTO " \o table_name \o " (" \o create_columns(values, 1)
        part2 == " ) VALUES ( " \o placeholders(Len(values), 1)
    IN [query |-> chars_take(part1, Len(part1) - 2)
                  \o chars_take(part2, Len(part2) - 2) \o " ) RETURNING id",
        bindings |-> values_of(values)]

RECURSIVE update_assignments(_, _)
update_assignments(pairs, i) ==
    IF i > Len(pairs) THEN ""
    ELSE pairs[i][1] \o " = $" \o ToString(i) \o ", " \o update_assignments(pairs, i + 1)

\* update selecting the rows of the owner instead of the row of the id when
\* an owner id is given.
update_all_of_owner(id, values, user_id) ==
    LET count == Len(values)
        set == "UPDATE " \o table_name \o " SET " \o update_assignments(values, 1)
    IN [query |-> chars_take(set, Len(set) - 2)
                  \o (IF IsSome(user_id)
                      THEN " WHERE user_id = $" \o ToString(count + 1)
                      ELSE " WHERE id = $" \o ToString(count + 1)),
        bindings |-> values_of(values)
                     \o (IF IsSome(user_id)
                         THEN <<FV_STRING(Unwrap(user_id))>> ELSE <<FV_UUID(id)>>)]

\* update binding the owner id before the id.
update_owner_first(id, values, user_id) ==
    LET count == Len(values)
        set == "UPDATE " \o table_name \o " SET " \o update_assignments(values, 1)
    IN [query |-> chars_take(set, Len(set) - 2)
                  \o " WHERE id = $" \o ToString(count + 1)
                  \o (IF IsSome(user_id)
                      THEN " AND user_id = $" \o ToString(count + 2) ELSE ""),
        bindings |-> values_of(values)
                     \o (IF IsSome(user_id) THEN <<FV_STRING(Unwrap(user_id))>> ELSE <<>>)
                     \o <<FV_UUID(id)>>]

\* update
update(id, values, user_id) ==
    LET count == Len(values)
        set == "UPDATE " \o table_name \o " SET " \o update_assignments(values, 1)
    IN [query |-> chars_take(set, Len(set) - 2)
                  \o " WHERE id = $" \o ToString(count + 1)
                  \o (IF IsSome(user_id)
                      THEN " AND user_id = $" \o ToString(count + 2) ELSE ""),
        bindings |-> values_of(values) \o <<FV_UUID(id)>>
                     \o (IF IsSome(user_id) THEN <<FV_STRING(Unwrap(user_id))>> ELSE <<>>)]

\* delete without the owner predicate.
delete_unowned(ids, user_id) ==
    LET head == "DELETE FROM " \o table_name \o " WHERE id IN ("
                \o placeholders(Len(ids), 1)
    IN [query |-> chars_take(head, Len(head) - 2) \o ")",
        bindings |-> [i \in 1..Len(ids) |-> FV_UUID(ids[i])]]

\* delete giving the owner predicate the index of the last id.
delete_owner_same_index(ids, user_id) ==
    LET count == Len(ids)
        head == "DELETE FROM " \o table_name \o " WHERE id IN (" \o placeholders(count, 1)
    IN [query |-> chars_take(head, Len(head) - 2) \o ")"
                  \o (IF IsSome(user_id)
                      THEN " AND user_id = $" \o ToString(count) ELSE ""),
        bindings |-> [i \in 1..count |-> FV_UUID(ids[i])]
                     \o (IF IsSome(user_id) THEN <<FV_STRING(Unwrap(user_id))>> ELSE <<>>)]

\* delete
delete(ids, user_id) ==
    LET count == Len(ids)
        head == "DELETE FROM " \o table_name \o " WHERE id IN (" \o placeholders(count, 1)
    IN [query |-> chars_take(head, Len(head) - 2) \o ")"
                  \o (IF IsSome(user_id)
                      THEN " AND user_id = $" \o ToString(count + 1) ELSE ""),
        bindings |-> [i \in 1..count |-> FV_UUID(ids[i])]
                     \o (IF IsSome(user_id) THEN <<FV_STRING(Unwrap(user_id))>> ELSE <<>>)]

\* drop_table: the statement text the handler formats from its JSON body,
\* the table name.  The handler itself, which executes the statement, is
\* ArriveDropTable followed by Command.
drop_table(body) ==
    [query |-> "DROP TABLE IF EXISTS " \o body \o " ", bindings |-> <<>>]

\* SchemaConfig::schema of the tests, with its white space collapsed.
schema ==
    "CREATE TABLE IF NOT EXISTS TestObjects ( id UUID PRIMARY KEY, "
    \o "name VARCHAR(50) NOT NULL, age INT NOT NULL, "
    \o "date_created TIMESTAMPTZ NOT NULL, status VARCHAR(50) NOT NULL, "
    \o "user_id VARCHAR(50) NOT NULL );"

\* The statements init_tables, reset_tables and drop_table send, in order;
\* each is awaited and an error ends the handler with 500.
init_tables == <<schema>>
reset_tables == <<"DROP SCHEMA public CASCADE;", "CREATE SCHEMA public;", schema>>

\* ---------------------------------------------------------- the database
\* The table created by schema(): every column is NOT NULL, id is the
\* primary key.  The table is a set of rows (records over these columns).
Columns ==
    [id |-> "UUID", name |-> "STRING", age |-> "INTEGER",
     date_created |-> "DATE", status |-> "STRING", user_id |-> "STRING"]

ColumnNames == DOMAIN Columns

\* The k-th smallest element of a set of integers.
Kth(S, k) == CHOOSE v \in S : Cardinality({w \in S : w < v}) = k - 1

\* The statement text split into words; "(", ")" and "," are words of their
\* own and blanks separate words.  WordsFrom reads the words from position
\* i on.
Separator(s, i) == SubSeq(s, i, i) \in {" ", "(", ")", ","}

RECURSIVE WordsFrom(_, _)
WordsFrom(s, i) ==
    LET last == CHOOSE j \in i..Len(s) :
                    /\ \A k \in i..j : ~Separator(s, k)
                    /\ j = Len(s) \/ Separator(s, j + 1)
    IN IF i > Len(s) THEN <<>>
       ELSE IF SubSeq(s, i, i) = " " THEN WordsFrom(s, i + 1)
       ELSE IF Separator(s, i) THEN <<SubSeq(s, i, i)>> \o WordsFrom(s, i + 1)
       ELSE <<SubSeq(s, i, last)>> \o WordsFrom(s, last + 1)

Words(s) == WordsFrom(s, 1)

\* The first n words of a text.
RECURSIVE FirstWords(_, _, _)
FirstWords(s, i, n) ==
    LET last == CHOOSE j \in i..Len(s) :
                    /\ \A k \in i..j : ~Separator(s, k)
                    /\ j = Len(s) \/ Separator(s, j + 1)
    IN IF i > Len(s) \/ n = 0 THEN <<>>
       ELSE IF SubSeq(s, i, i) = " " THEN FirstWords(s, i + 1, n)
       ELSE IF Separator(s, i) THEN <<SubSeq(s, i, i)>> \o FirstWords(s, i + 1, n - 1)
       ELSE <<SubSeq(s, i, last)>> \o FirstWords(s, last + 1, n - 1)

\* The groups of words between occurrences of the word sep.
Split(toks, sep) ==
    LET cuts == {0, Len(toks) + 1} \cup {i \in DOMAIN toks : toks[i] = sep}
    IN [k \in 1..(Cardinality(cuts) - 1) |->
           SubSeq(toks, Kth(cuts, k) + 1, Kth(cuts, k + 1) - 1)]

\* The n of a placeholder word "$n", 0 when the word is no placeholder.
ParamIndex(tok) ==
    LET S == {n \in 1..9 : tok = "$" \o ToString(n)}
    IN IF S = {} THEN 0 ELSE CHOOSE n \in S : TRUE

CompareOps == {"=", ">", "<", ">=", "<="}

SqlKeywords ==
    {"SELECT", "FROM", "WHERE", "ORDER", "BY", "AND", "IN", "SET", "ASC", "DESC",
     "INSERT", "INTO", "VALUES", "RETURNING", "UPDATE", "DELETE", "*", "(", ")", ","}

IsIdent(tok) == tok \notin SqlKeywords /\ tok \notin CompareOps /\ ParamIndex(tok) = 0

\* The collation of the text values this model stores or binds.
TextOrder == <<"", "Jane", "John", "active", "age", "asc", "bogus", "desc", "nobody", "u1", "u2">>

Rank(tag, v) ==
    IF tag = "STRING" THEN CHOOSE i \in 1..Len(TextOrder) : TextOrder[i] = v ELSE v

\* A condition of a WHERE clause: col op $n, or col IN ( $a , $b ... ).
CondOk(g) ==
    \/ /\ Len(g) = 3
       /\ g[1] \in ColumnNames
       /\ g[2] \in CompareOps
       /\ ParamIndex(g[3]) > 0
    \/ /\ Len(g) >= 5
       /\ g[1] \in ColumnNames
       /\ g[2] = "IN" /\ g[3] = "(" /\ g[Len(g)] = ")"
       /\ \A h \in Range(Split(SubSeq(g, 4, Len(g) - 1), ",")) :
              Len(h) = 1 /\ ParamIndex(h[1]) > 0

CondParams(g) ==
    IF Len(g) = 3 THEN {ParamIndex(g[3])}
    ELSE {ParamIndex(h[1]) : h \in Range(Split(SubSeq(g, 4, Len(g) - 1), ","))}

\* The parameters of a condition exist and have the type of its column.
CondTyped(g, binds) ==
    \A n \in CondParams(g) : n <= Len(binds) /\ binds[n].tag = Columns[g[1]]

CondHolds(g, binds, row) ==
    LET tag == Columns[g[1]]
        l == row[g[1]]
    IN IF Len(g) = 3
       THEN LET r == binds[ParamIndex(g[3])].val
            IN CASE g[2] = "=" -> l = r
                 [] g[2] = ">" -> Rank(tag, l) > Rank(tag, r)
                 [] g[2] = "<" -> Rank(tag, l) < Rank(tag, r)
                 [] g[2] = ">=" -> Rank(tag, l) >= Rank(tag, r)
                 [] g[2] = "<=" -> Rank(tag, l) <= Rank(tag, r)
       ELSE \E n \in CondParams(g) : l = binds[n].val

\* A WHERE clause (the words after WHERE): conditions joined by AND.
WhereOk(toks, binds) ==
    /\ Len(toks) > 0
    /\ \A g \in Range(Split(toks, "AND")) : CondOk(g) /\ CondTyped(g, binds)

WhereParams(toks) == UNION {CondParams(g) : g \in Range(Split(toks, "AND"))}

WhereHolds(toks, binds, row) ==
    \A g \in Range(Split(toks, "AND")) : CondHolds(g, binds, row)

\* Every bound value is a parameter of the statement and conversely.
ParamsMatch(used, binds) == used = 1..Len(binds)

DbError == [ok |-> FALSE]

\* SELECT * FROM t [alias] [WHERE conds] ORDER BY col dir
pg_select(toks, binds, tbl) ==
    IF ~(Len(toks) >= 8 /\ SubSeq(toks, 1, 3) = <<"SELECT", "*", "FROM">>
         /\ toks[4] = table_name)
    THEN DbError
    ELSE
    LET rest0 == SubSeq(toks, 5, Len(toks))
        rest == IF IsIdent(rest0[1]) THEN Tail(rest0) ELSE rest0
        parts == Split(rest, "ORDER")
        where == IF Len(parts[1]) > 0 THEN Tail(parts[1]) ELSE <<>>
    IN IF /\ Len(parts) = 2
          /\ Len(parts[1]) = 0 \/ (parts[1][1] = "WHERE" /\ WhereOk(where, binds))
          /\ ParamsMatch(IF Len(where) = 0 THEN {} ELSE WhereParams(where), binds)
          /\ Len(parts[2]) = 3
          /\ parts[2][1] = "BY"
          /\ parts[2][2] \in ColumnNames
          /\ parts[2][3] \in {"ASC", "DESC"}
       THEN [ok |-> TRUE,
             rows |-> {r \in tbl : Len(where) = 0 \/ WhereHolds(where, binds, r)},
             order_col |-> parts[2][2], order_dir |-> parts[2][3]]
       ELSE DbError

\* The orders in which the database may return the rows of a SELECT: sorted
\* on the ORDER BY column, rows that tie in any order.
Orderings(rows, col, dir) ==
    {s \in [1..Cardinality(rows) -> rows] :
        /\ \A i, j \in DOMAIN s : i # j => s[i] # s[j]
        /\ \A i, j \in DOMAIN s :
              i < j => IF dir = "ASC"
                       THEN Rank(Columns[col], s[i][col]) <= Rank(Columns[col], s[j][col])
                       ELSE Rank(Columns[col], s[i][col]) >= Rank(Columns[col], s[j][col])}

\* A list of single words separated by commas.
ListOk(toks) == Len(toks) > 0 /\ \A h \in Range(Split(toks, ",")) : Len(h) = 1

ListOf(toks) == LET gs == Split(toks, ",") IN [i \in 1..Len(gs) |-> gs[i][1]]

Distinct(seq) == \A i, j \in DOMAIN seq : i # j => seq[i] # seq[j]

\* INSERT INTO t ( cols ) VALUES ( params ) RETURNING id
pg_insert(toks, binds, tbl) ==
    IF ~(Len(toks) >= 4 /\ SubSeq(toks, 1, 4) = <<"INSERT", "INTO", table_name, "(">>)
    THEN DbError
    ELSE
    LET parts == Split(SubSeq(toks, 5, Len(toks)), ")")
    IN IF ~(/\ Len(parts) = 3
            /\ ListOk(parts[1])
            /\ Len(parts[2]) > 2
            /\ SubSeq(parts[2], 1, 2) = <<"VALUES", "(">>
            /\ ListOk(SubSeq(parts[2], 3, Len(parts[2])))
            /\ parts[3] = <<"RETURNING", "id">>)
       THEN DbError
       ELSE
       LET cols == ListOf(parts[1])
           params == ListOf(SubSeq(parts[2], 3, Len(parts[2])))
           row == [c \in ColumnNames |->
                      binds[ParamIndex(params[CHOOSE i \in DOMAIN cols : cols[i] = c])].val]
       IN IF /\ Len(cols) = Len(params)
             /\ Distinct(cols)
             /\ Range(cols) = ColumnNames
             /\ \A i \in DOMAIN params :
                    /\ ParamIndex(params[i]) \in 1..Len(binds)
                    /\ binds[ParamIndex(params[i])].tag = Columns[cols[i]]
             /\ ParamsMatch({ParamIndex(params[i]) : i \in DOMAIN params}, binds)
             /\ \A r \in tbl : r.id # row.id
          THEN [ok |-> TRUE, tbl |-> tbl \cup {row}, id |-> row.id]
          ELSE DbError

\* UPDATE t SET col = $n , ... WHERE conds
pg_update(toks, binds, tbl) ==
    IF ~(Len(toks) >= 3 /\ SubSeq(toks, 1, 3) = <<"UPDATE", table_name, "SET">>)
    THEN DbError
    ELSE
    LET parts == Split(SubSeq(toks, 4, Len(toks)), "WHERE")
        sets == Split(parts[1], ",")
    IN IF /\ Len(parts) = 2
          /\ \A i \in DOMAIN sets :
                /\ Len(sets[i]) = 3
                /\ sets[i][1] \in ColumnNames
                /\ sets[i][2] = "="
                /\ ParamIndex(sets[i][3]) \in 1..Len(binds)
                /\ binds[ParamIndex(sets[i][3])].tag = Columns[sets[i][1]]
          /\ Distinct([i \in DOMAIN sets |-> sets[i][1]])
          /\ WhereOk(parts[2], binds)
          /\ ParamsMatch({ParamIndex(sets[i][3]) : i \in DOMAIN sets}
                         \cup WhereParams(parts[2]), binds)
       THEN LET hit == {r \in tbl : WhereHolds(parts[2], binds, r)}
                new(r) == [c \in ColumnNames |->
                              IF \E i \in DOMAIN sets : sets[i][1] = c
                              THEN binds[ParamIndex(
                                      sets[CHOOSE i \in DOMAIN sets : sets[i][1] = c][3])].val
                              ELSE r[c]]
                after == (tbl \ hit) \cup {new(r) : r \in hit}
            IN IF \A r1, r2 \in after : r1.id = r2.id => r1 = r2
               THEN [ok |-> TRUE, tbl |-> after, rows_affected |-> Cardinality(hit)]
               ELSE DbError
       ELSE DbError

\* DELETE FROM t WHERE conds
pg_delete(toks, binds, tbl) ==
    IF /\ Len(toks) >= 4
       /\ SubSeq(toks, 1, 4) = <<"DELETE", "FROM", table_name, "WHERE">>
       /\ WhereOk(SubSeq(toks, 5, Len(toks)), binds)
       /\ ParamsMatch(WhereParams(SubSeq(toks, 5, Len(toks))), binds)
    THEN LET where == SubSeq(toks, 5, Len(toks))
             hit == {r \in tbl : WhereHolds(where, binds, r)}
         IN [ok |-> TRUE, tbl |-> tbl \ hit, rows_affected |-> Cardinality(hit)]
    ELSE DbError

\* The catalog of the database: whether the schema public exists, and the
\* tables in it.  The rows of a table go with the table.
Catalog(public, tables) == [public |-> public, tables |-> tables]

\* The statements of the table commands, recognised by their first words.
\* DROP SCHEMA and CREATE SCHEMA
\* fail when the schema is not there or is there already; CREATE TABLE IF
\* NOT EXISTS needs the schema; DROP TABLE IF EXISTS succeeds whether or
\* not the table is there.
pg_command(text, cat, tbl) ==
    LET toks == FirstWords(text, 1, 7)
    IN
    CASE toks = <<"DROP", "SCHEMA", "public", "CASCADE;">> ->
            IF cat.public THEN [ok |-> TRUE, tbl |-> {}, cat |-> Catalog(FALSE, {})]
            ELSE DbError
      [] toks = <<"CREATE", "SCHEMA", "public;">> ->
            IF ~cat.public THEN [ok |-> TRUE, tbl |-> tbl, cat |-> Catalog(TRUE, cat.tables)]
            ELSE DbError
      [] Len(toks) = 7 /\ SubSeq(toks, 1, 5) = <<"CREATE", "TABLE", "IF", "NOT", "EXISTS">>
           /\ toks[7] = "(" /\ SubSeq(text, Len(text) - 1, Len(text)) = ");" ->
            IF cat.public
            THEN [ok |-> TRUE, tbl |-> tbl,
                  cat |-> Catalog(TRUE, cat.tables \cup {toks[6]})]
            ELSE DbError
      [] Len(toks) = 5 /\ SubSeq(toks, 1, 4) = <<"DROP", "TABLE", "IF", "EXISTS">> ->
            [ok |-> TRUE, tbl |-> IF toks[5] = table_name THEN {} ELSE tbl,
             cat |-> Catalog(cat.public, cat.tables \ {toks[5]})]
      [] OTHER -> DbError

\* ------------------------------------------------------ token verification
\* The process environment read by the extractors.
JWT_AUDIENCE == "api"
CLERK_ISSUER == "idp"
JWT_ISSUER == "self"
JWT_SECRET == "s3"
AUTH0_AUDIENCE == "api"
AUTH0_ISSUER == "idp"

\* The key set served at the issuer's jwks.json; rsa_ok says whether
\* DecodingKey::from_rsa_components accepts the key's n and e.
Jwks == << [kid |-> "k1", rsa_ok |-> TRUE], [kid |-> "k2", rsa_ok |-> FALSE] >>

\* What the strings presented as tokens decode to.  A string outside the
\* domain has no decodable JWT header.  signer is the key or secret the
\* signature was made with.
Jwt ==
    LET rs(kid, signer, aud, iss, sub, perms) ==
            [alg |-> "RS256", kid |-> kid, signer |-> signer, aud |-> aud, iss |-> iss,
             claims |-> [sub |-> sub, subscription |-> "pro", permissions |-> perms]]
        hs(secret, clerk_id, tier) ==
            [alg |-> "HS256", kid |-> None, signer |-> secret, aud |-> "api", iss |-> "self",
             claims |-> [clerk_id |-> clerk_id, subscription |-> tier]]
        admin == <<"read:admin">>
    IN [tA |-> rs(Some("k1"), "k1", "api", "idp", "u1", admin),
        tB |-> rs(Some("k1"), "k1", "api", "idp", "u2", <<"read:own">>),
        tK0 |-> rs(None, "k1", "api", "idp", "u1", admin),
        tKx |-> rs(Some("k9"), "k1", "api", "idp", "u1", admin),
        tK2 |-> rs(Some("k2"), "k2", "api", "idp", "u1", admin),
        tSg |-> rs(Some("k1"), "k9", "api", "idp", "u1", admin),
        tAu |-> rs(Some("k1"), "k1", "app", "idp", "u1", admin),
        tIs |-> rs(Some("k1"), "k1", "api", "evil", "u1", admin),
        sA |-> hs("s3", "u1", "gold"),
        sB |-> hs("s3", "u2", "gold"),
        sX |-> hs("s0", "u1", "gold")]

\* fetch_jwks: the key set when the fetch succeeds, that is when both the
\* request and the reading of its body did.
fetch_jwks(fetch_ok) == IF fetch_ok THEN Some(Jwks) ELSE None

find_signing_key(jwks, kid) ==
    LET hits == {i \in DOMAIN jwks : jwks[i].kid = kid}
    IN IF hits = {} THEN None
       ELSE LET jwk == jwks[Kth(hits, 1)]
            IN IF jwk.rsa_ok THEN Some(jwk.kid) ELSE None

\* jsonwebtoken::decode::<Claims>: the algorithm, the signature under key,
\* the audience and the issuer are checked and the claims must have the
\* fields of the claims struct.  The expiry Validation::new checks as well
\* is not modelled: no token of Jwt is expired.
jwt_decode(token, alg, key, audience, issuer, fields) ==
    IF /\ token \in DOMAIN Jwt
       /\ Jwt[token].alg = alg
       /\ Jwt[token].signer = key
       /\ Jwt[token].aud = audience
       /\ Jwt[token].iss = issuer
       /\ fields \subseteq DOMAIN Jwt[token].claims
    THEN Some(Jwt[token].claims)
    ELSE None

Ok(v) == [val |-> v, kind |-> "ok"]
Err(status, text) == [status |-> status, kind |-> "err", text |-> text]
Panic == [kind |-> "panic"]

\* decode_with_key answering 403 when the token does not decode under the
\* key found.
decode_with_key_forbidden(token, decoding_key, audience, issuer, fields) ==
    IF ~IsSome(decoding_key) THEN Err(401, "")
    ELSE IF IsSome(jwt_decode(token, "RS256", Unwrap(decoding_key), audience, issuer, fields))
         THEN Ok(Jwt[token].claims)
         ELSE Err(403, "")

\* decode_clerk_token and decode_auth0_token differ in the claims struct
\* alone.  The steps after the key set was fetched: the header is decoded,
\* its kid looked up, the token decoded under the key found.
decode_with_key(token, decoding_key, audience, issuer, fields) ==
    IF ~IsSome(decoding_key) THEN Err(401, "")
    ELSE IF IsSome(jwt_decode(token, "RS256", Unwrap(decoding_key), audience, issuer, fields))
         THEN Ok(Jwt[token].claims)
         ELSE Err(401, "")

decode_with_jwks(token, jwks, audience, issuer, fields) ==
    IF token \notin DOMAIN Jwt THEN Err(401, "")
    ELSE IF ~IsSome(Jwt[token].kid) THEN Err(401, "")
    ELSE decode_with_key(token, find_signing_key(jwks, Unwrap(Jwt[token].kid)),
                         audience, issuer, fields)

\* decode_rs256 answering 401 when the key set cannot be fetched.
decode_rs256_unauthorized(token, audience, issuer, fields, fetch_ok) ==
    IF ~IsSome(fetch_jwks(fetch_ok)) THEN Err(401, "")
    ELSE decode_with_jwks(token, Jwks, audience, issuer, fields)

decode_rs256(token, audience, issuer, fields, fetch_ok) ==
    IF ~IsSome(fetch_jwks(fetch_ok)) THEN Err(500, "")
    ELSE decode_with_jwks(token, Jwks, audience, issuer, fields)

decode_auth0_token(token, audience, issuer, fetch_ok) ==
    decode_rs256(token, audience, issuer, {"sub", "subscription", "permissions"}, fetch_ok)

decode_clerk_token(token, audience, issuer, fetch_ok) ==
    decode_rs256(token, audience, issuer, {"sub"}, fetch_ok)

decode_custom_token(token, audience, issuer, secret) ==
    IF IsSome(jwt_decode(token, "HS256", secret, audience, issuer,
                         {"subscription", "clerk_id"}))
    THEN Ok(Jwt[token].claims)
    ELSE Err(401, "")

\* A header value is [text, visible]; HeaderValue::to_str fails unless the
\* value is made of visible ASCII only.  headers maps a header name to the
\* value the request carries under it, None when it carries none.
contains_key(headers, key) == key \in DOMAIN headers /\ IsSome(headers[key])

bearer_token(auth_header) ==
    IF ~auth_header.visible THEN Panic
    ELSE IF ~starts_with(auth_header.text, "Bearer ")
         THEN Err(401, "Auth Token missing bearer")
         ELSE Ok(replace_with_empty(auth_header.text, "Bearer "))

pull_header_token(headers, key) ==
    IF ~contains_key(headers, key) THEN Err(401, "No auth token")
    ELSE bearer_token(Unwrap(headers[key]))

\* What an extractor did besides its result: key-set fetches and token
\* decodings attempted.
Cost(r, fetches, decodes) == [fetches |-> fetches, decodes |-> decodes, res |-> r]

\* AuthUser::from_request_parts, after both tokens were decoded.
auth_user_checked(claims, decoded_sub_token) ==
    IF decoded_sub_token.kind # "ok"
    THEN Cost(Err(decoded_sub_token.status, "Error decoding sub token"), 1, 2)
    ELSE IF claims.sub # decoded_sub_token.val.clerk_id
    THEN Cost(Err(401, "invalid permissions"), 1, 2)
    ELSE Cost(Ok([user_id |-> claims.sub,
                  subscription |-> decoded_sub_token.val.subscription]), 1, 2)

\* AuthUser::from_request_parts, after the access token was decoded.
auth_user_decoded(decoded_access_token, subscription_token, fetch_ok) ==
    IF decoded_access_token.kind # "ok"
    THEN Cost(Err(decoded_access_token.status, "Error decoding auth token"),
              1, IF fetch_ok THEN 1 ELSE 0)
    ELSE IF subscription_token = "none"
    THEN Cost(Ok([user_id |-> decoded_access_token.val.sub,
                  subscription |-> subscription_token]), 1, 1)
    ELSE auth_user_checked(decoded_access_token.val,
                           decode_custom_token(subscription_token, JWT_AUDIENCE,
                                               JWT_ISSUER, JWT_SECRET))

\* AuthUser::from_request_parts, after the headers were pulled.
auth_user_pulled(access_token, subscription_token, fetch_ok) ==
    IF access_token.kind # "ok" THEN Cost(access_token, 0, 0)
    ELSE IF subscription_token.kind # "ok" THEN Cost(subscription_token, 0, 0)
    ELSE auth_user_decoded(decode_clerk_token(access_token.val, JWT_AUDIENCE,
                                              CLERK_ISSUER, fetch_ok),
                           subscription_token.val, fetch_ok)

\* AuthUser::from_request_parts
AuthUser_from_request_parts(headers, fetch_ok) ==
    auth_user_pulled(pull_header_token(headers, "Authorization"),
                     IF contains_key(headers, "Subscription")
                     THEN pull_header_token(headers, "Subscription")
                     ELSE Ok("none"),
                     fetch_ok)

\* AdminUser::from_request_parts without the check of the permission.
admin_user_unchecked(decoded_token, fetch_ok) ==
    IF decoded_token.kind # "ok"
    THEN Cost(Err(decoded_token.status, "Error decoding token"),
              1, IF fetch_ok THEN 1 ELSE 0)
    ELSE Cost(Ok([user_id |-> decoded_token.val.sub,
                  subscription |-> decoded_token.val.subscription,
                  permissions |-> decoded_token.val.permissions]), 1, 1)

\* AdminUser::from_request_parts, after the token was decoded.
admin_user_decoded(decoded_token, fetch_ok) ==
    IF decoded_token.kind # "ok"
    THEN Cost(Err(decoded_token.status, "Error decoding token"),
              1, IF fetch_ok THEN 1 ELSE 0)
    ELSE IF \A i \in DOMAIN decoded_token.val.permissions :
                decoded_token.val.permissions[i] # "read:admin"
    THEN Cost(Err(401, "invalid permissions"), 1, 1)
    ELSE Cost(Ok([user_id |-> decoded_token.val.sub,
                  subscription |-> decoded_token.val.subscription,
                  permissions |-> decoded_token.val.permissions]), 1, 1)

\* AdminUser::from_request_parts, after the header was read.
admin_user_pulled(token, fetch_ok) ==
    IF token.kind # "ok" THEN Cost(token, 0, 0)
    ELSE admin_user_decoded(decode_auth0_token(token.val, AUTH0_AUDIENCE,
                                               AUTH0_ISSUER, fetch_ok), fetch_ok)

\* AdminUser::from_request_parts
AdminUser_from_request_parts(headers, fetch_ok) ==
    admin_user_pulled(IF ~contains_key(headers, "Authorization")
                      THEN Err(401, "No auth token")
                      ELSE bearer_token(Unwrap(headers["Authorization"])),
                      fetch_ok)

\* ------------------------------------------------------------ the server
Verbs == {"GET", "POST", "PUT", "DELETE"}

\* A CrudConfig: per verb, include_endpoint, is_custom,
\* get_object_permissions and get_access_permissions; hooks are the verbs
\* whose custom_* hook the entity overrides.
Config(access, object, custom, include, hooks) ==
    [access |-> access, object |-> object, custom |-> custom, include |-> include,
     hooks |-> hooks]

Uniform(v) == [verb \in Verbs |-> v]

\* The entity of tests/permissions.rs.
PermissionsEntity ==
    Config([Uniform("AUTHENTICATED") EXCEPT !["DELETE"] = "ADMIN"], Uniform("OWNER"),
           Uniform(FALSE), Uniform(TRUE), {})

\* The entity of tests/general.rs.
GeneralEntity == Config(Uniform("ANY"), Uniform("ALL"), Uniform(FALSE), Uniform(TRUE), {})

\* The entity of tests/customs.rs.
CustomsEntity ==
    Config(Uniform("ANY"), Uniform("ALL"), [verb \in Verbs |-> verb \in {"GET", "POST"}],
           [verb \in Verbs |-> verb \in {"GET", "POST"}], {"GET", "POST"})

\* Further configurations an entity may declare.
AnonymousOwnerEntity ==
    Config([Uniform("ANY") EXCEPT !["POST"] = "AUTHENTICATED"], Uniform("OWNER"),
           Uniform(FALSE), Uniform(TRUE), {})

SharedEntity ==
    Config([Uniform("AUTHENTICATED") EXCEPT !["DELETE"] = "ADMIN"], Uniform("ALL"),
           Uniform(FALSE), Uniform(TRUE), {})

UnimplementedEntity ==
    Config(Uniform("AUTHENTICATED"), Uniform("OWNER"),
           [verb \in Verbs |-> verb # "POST"], Uniform(TRUE), {})

\* Every route asks for an admin; POST is flagged custom and no hook is
\* overridden.
AdminEntity ==
    Config(Uniform("ADMIN"), Uniform("ALL"), [verb \in Verbs |-> verb = "POST"],
           Uniform(TRUE), {})

\* Anyone may POST; the rows are read and changed by identified callers
\* under object scope OWNER.
DropboxEntity ==
    Config([Uniform("AUTHENTICATED") EXCEPT !["POST"] = "ANY"], Uniform("OWNER"),
           Uniform(FALSE), Uniform(TRUE), {})

\* Every verb is flagged custom: identified callers under object scope ALL
\* (GET, POST, DELETE) and anonymous callers under object scope OWNER (PUT).
CustomScopesEntity ==
    Config([Uniform("AUTHENTICATED") EXCEPT !["PUT"] = "ANY", !["DELETE"] = "ADMIN"],
           [Uniform("ALL") EXCEPT !["PUT"] = "OWNER"], Uniform(TRUE), Uniform(TRUE), {})

Configs ==
    {PermissionsEntity, GeneralEntity, CustomsEntity, AnonymousOwnerEntity, SharedEntity,
     UnimplementedEntity, AdminEntity, DropboxEntity, CustomScopesEntity}

\* The id returned by custom_create of tests/customs.rs.
custom_uuid == 1

Response(status, text, body) == [status |-> status, body |-> body, text |-> text]
NoResponse == Response(0, "", <<>>)
NoStmt == [query |-> "", bindings |-> <<>>]

\* What a handler body decides: the owner id it resolved and either a
\* statement for the database or the response of a path that sends none.
\* hook and args are the custom_* hook the body called, if any, and the
\* arguments it passed to it.
Send(owner, kind, stmt) ==
    [kind |-> kind, owner |-> owner, stmt |-> stmt, resp |-> NoResponse,
     hook |-> "", args |-> <<>>]
Reply(owner, resp) ==
    [kind |-> "none", owner |-> owner, stmt |-> NoStmt, resp |-> resp,
     hook |-> "", args |-> <<>>]
Custom(owner, hook, args, resp) ==
    [kind |-> "none", owner |-> owner, stmt |-> NoStmt, resp |-> resp,
     hook |-> hook, args |-> args]

\* The custom_* hooks: the defaults of CrudConfig unless the entity
\* overrides them.
custom_read(cfg) ==
    IF "GET" \in cfg.hooks THEN Response(200, "", <<>>) ELSE Response(501, "", <<>>)
custom_create(cfg) ==
    IF "POST" \in cfg.hooks THEN Response(200, "", <<custom_uuid>>) ELSE Response(501, "", <<>>)
\* A default custom_update answering 200.
custom_update_accepting(cfg) == Response(200, "", <<>>)
custom_update(cfg) == Response(501, "", <<>>)
custom_delete(cfg) == Response(501, "", <<>>)

\* _http_get handing the owner id of the caller to custom_read whatever the
\* object scope.
_http_get_custom_unscoped(cfg, params, user_id) ==
    LET user_id_matched == IF cfg.object["GET"] = "ALL" THEN None ELSE user_id
    IN IF cfg.custom["GET"]
       THEN Custom(user_id, "custom_read", <<params, user_id>>, custom_read(cfg))
       ELSE Send(user_id_matched, "read", read(key_value_pairs_query(params), user_id_matched))

\* _http_get without the match on is_custom.
_http_get_default(cfg, params, user_id) ==
    LET user_id_matched == IF cfg.object["GET"] = "ALL" THEN None ELSE user_id
    IN Send(user_id_matched, "read", read(key_value_pairs_query(params), user_id_matched))

_http_get(cfg, params, user_id) ==
    LET user_id_matched == IF cfg.object["GET"] = "ALL" THEN None ELSE user_id
    IN IF cfg.custom["GET"]
       THEN Custom(user_id_matched, "custom_read", <<params, user_id_matched>>,
                   custom_read(cfg))
       ELSE Send(user_id_matched, "read", read(key_value_pairs_query(params), user_id_matched))

\* _http_post matching the owner id on the object scope of POST, as the
\* other verbs do.
_http_post_scoped(cfg, params, user_id, new_id, now) ==
    LET user_id_matched == IF cfg.object["POST"] = "ALL" THEN None ELSE user_id
        full_object == add_set_values(params, user_id_matched, new_id, now)
    IN IF verify(params)
       THEN IF cfg.custom["POST"]
            THEN Custom(None, "custom_create", <<full_object>>, custom_create(cfg))
            ELSE Send(None, "create", create(key_value_pairs_object(full_object)))
       ELSE Reply(None, Response(400, "", <<>>))

_http_post(cfg, params, user_id, new_id, now) ==
    LET full_object == add_set_values(params, user_id, new_id, now)
    IN IF verify(params)
       THEN IF cfg.custom["POST"]
            THEN Custom(None, "custom_create", <<full_object>>, custom_create(cfg))
            ELSE Send(None, "create", create(key_value_pairs_object(full_object)))
       ELSE Reply(None, Response(400, "", <<>>))

\* _http_put with no owner predicate, whatever the object scope.
_http_put_shared(cfg, id, params, user_id) ==
    IF verify(params)
    THEN Send(None, "update", update(id, key_value_pairs_input(params), None))
    ELSE Reply(None, Response(400, "", <<>>))

\* _http_put without the call of verify.
_http_put_unverified(cfg, id, params, user_id) ==
    LET user_id_matched == IF cfg.object["PUT"] = "ALL" THEN None ELSE user_id
    IN IF cfg.custom["PUT"]
       THEN Custom(user_id_matched, "custom_update",
                   <<id, params, user_id_matched>>, custom_update(cfg))
       ELSE Send(user_id_matched, "update",
                 update(id, key_value_pairs_input(params), user_id_matched))

_http_put(cfg, id, params, user_id) ==
    LET user_id_matched == IF cfg.object["PUT"] = "ALL" THEN None ELSE user_id
    IN IF verify(params)
       THEN IF cfg.custom["PUT"]
            THEN Custom(user_id_matched, "custom_update",
                        <<id, params, user_id_matched>>, custom_update(cfg))
            ELSE Send(user_id_matched, "update",
                      update(id, key_value_pairs_input(params), user_id_matched))
       ELSE Reply(user_id_matched, Response(400, "", <<>>))

\* _http_delete giving no owner id to delete on a route of caller scope ADMIN.
_http_delete_admin_unscoped(cfg, id, user_id) ==
    LET ids == <<id>>
        user_id_matched ==
            IF cfg.object["DELETE"] = "ALL" \/ cfg.access["DELETE"] = "ADMIN"
            THEN None ELSE user_id
    IN IF cfg.custom["DELETE"]
       THEN Custom(user_id_matched, "custom_delete", <<ids, user_id_matched>>,
                   custom_delete(cfg))
       ELSE Send(user_id_matched, "delete", delete(ids, user_id_matched))

\* _http_delete with the caller as owner, whatever the object scope.
_http_delete_owner(cfg, id, user_id) == Send(user_id, "delete", delete(<<id>>, user_id))

_http_delete(cfg, id, user_id) ==
    LET ids == <<id>>
        user_id_matched == IF cfg.object["DELETE"] = "ALL" THEN None ELSE user_id
    IN IF cfg.custom["DELETE"]
       THEN Custom(user_id_matched, "custom_delete", <<ids, user_id_matched>>,
                   custom_delete(cfg))
       ELSE Send(user_id_matched, "delete", delete(ids, user_id_matched))

\* The database call of a statement: the outcome of the statement, or an
\* error when the call fails before the statement runs.
pg_execute(kind, stmt, tbl, cat, db_ok) ==
    IF ~db_ok \/ table_name \notin cat.tables THEN DbError
    ELSE CASE kind = "read" -> pg_select(Words(stmt.query), stmt.bindings, tbl)
           [] kind = "create" -> pg_insert(Words(stmt.query), stmt.bindings, tbl)
           [] kind = "update" -> pg_update(Words(stmt.query), stmt.bindings, tbl)
           [] kind = "delete" -> pg_delete(Words(stmt.query), stmt.bindings, tbl)

\* What read, create, update and delete make of the outcome of the database
\* call.  rows is the order the database returned the rows in.
read_result(res, rows) ==
    IF res.ok THEN Response(200, "", rows) ELSE Response(500, "", <<>>)

create_result(res) ==
    IF res.ok THEN Response(200, "", <<res.id>>) ELSE Response(500, "", <<>>)

\* update answering 200 whatever the number of rows affected.
update_result_any_count(res) ==
    IF ~res.ok THEN NoResponse ELSE Response(200, "", <<>>)

\* The Result is unwrapped: an Err aborts the task and no response is sent.
update_result(res) ==
    IF ~res.ok THEN NoResponse
    ELSE IF res.rows_affected = 0 THEN Response(400, "", <<>>) ELSE Response(200, "", <<>>)

\* delete answering 200 whatever the number of rows affected.
delete_result_any_count(res) ==
    IF ~res.ok THEN NoResponse ELSE Response(200, "", <<>>)

delete_result(res) ==
    IF ~res.ok THEN NoResponse
    ELSE IF res.rows_affected = 0 THEN Response(400, "", <<>>) ELSE Response(200, "", <<>>)

\* CrudConfig::endpoint_name of the entity of the tests.
endpoint_name == "testObjects"

Route(method, path, handler) == [method |-> method, path |-> path, handler |-> handler]

\* The arm of create_endpoint_router for a verb: the route it registers.
route_of(c, verb) ==
    CASE verb = "GET" ->
            Route("GET", "/" \o endpoint_name,
                  CASE c.access[verb] = "ANY" -> "http_get_any"
                    [] c.access[verb] = "AUTHENTICATED" -> "http_get_auth"
                    [] c.access[verb] = "ADMIN" -> "http_get_admin")
      [] verb = "POST" ->
            Route("POST", "/" \o endpoint_name,
                  CASE c.access[verb] = "ANY" -> "http_post_any"
                    [] c.access[verb] = "AUTHENTICATED" -> "http_post_auth"
                    [] c.access[verb] = "ADMIN" -> "http_post_admin")
      [] verb = "PUT" ->
            Route("PUT", "/" \o endpoint_name \o "/:id",
                  CASE c.access[verb] = "ANY" -> "http_put_any"
                    [] c.access[verb] = "AUTHENTICATED" -> "http_put_auth"
                    [] c.access[verb] = "ADMIN" -> "http_put_admin")
      [] verb = "DELETE" ->
            Route("DELETE", "/" \o endpoint_name \o "/:id",
                  CASE c.access[verb] = "ANY" -> "http_delete_any"
                    [] c.access[verb] = "AUTHENTICATED" -> "http_delete_auth"
                    [] c.access[verb] = "ADMIN" -> "http_delete_admin")

\* create_endpoint_router with every verb included.
create_endpoint_router_all(c) == {route_of(c, verb) : verb \in Verbs}

\* create_endpoint_router: the routes of the router it returns.
create_endpoint_router(c) == {route_of(c, verb) : verb \in {v \in Verbs : c.include[v]}}

\* The handlers the router has for a method.
handlers_for(router, method) == {r.handler : r \in {q \in router : q.method = method}}

\* The identity extractor among the parameters of a handler.
identity_param(handler) ==
    CASE handler \in {"http_get_any", "http_post_any", "http_put_any", "http_delete_any"} ->
            "none"
      [] handler \in {"http_get_auth", "http_post_auth", "http_put_auth",
                      "http_delete_auth"} -> "AuthUser"
      [] handler \in {"http_get_admin", "http_post_admin", "http_put_admin",
                      "http_delete_admin"} -> "AdminUser"

\* The response of the router to a verb no route is registered for: 405 when
\* the path has a route for another verb, 404 otherwise.
no_route(cfg, verb) ==
    LET same_path == IF verb \in {"GET", "POST"} THEN {"GET", "POST"} ELSE {"PUT", "DELETE"}
    IN IF \E v \in same_path : cfg.include[v]
       THEN Response(405, "", <<>>) ELSE Response(404, "", <<>>)

\* An extracted identity as the Option the handler body is called with.
as_option(r) == IF r.res.kind = "ok" THEN [r EXCEPT !.res = Ok(Some(r.res.val))] ELSE r

\* Every verb is given the handler of the ANY scope.
extract_identity_any(cfg, verb, headers, fetch_ok) == Cost(Ok(None), 0, 0)

\* The identity extractor of the handler create_endpoint_router registers
\* for the verb.
extract_identity(cfg, verb, headers, fetch_ok) ==
    LET handler == CHOOSE h \in handlers_for(create_endpoint_router(cfg), verb) : TRUE
    IN CASE identity_param(handler) = "none" -> Cost(Ok(None), 0, 0)
         [] identity_param(handler) = "AuthUser" ->
               as_option(AuthUser_from_request_parts(headers, fetch_ok))
         [] identity_param(handler) = "AdminUser" ->
               as_option(AdminUser_from_request_parts(headers, fetch_ok))

\* ------------------------------------------------------------------ state
VARIABLES
    cfg,    \* the configuration of the entity the router was built for
    tbl,    \* the rows of the table
    req,    \* the request being served, or the last one served
    built,  \* the statements the query builders made of two inputs
    catalog,    \* the schema and the tables that exist in the database
    cmd     \* the table command being served, or the last one served

vars == <<cfg, tbl, req, built, catalog, cmd>>

NoHeaders == [Authorization |-> None, Subscription |-> None, Authentication |-> None]
visible(text) == Some([text |-> text, visible |-> TRUE])
\* A value with a byte that is not visible ASCII, "Basic\xFF": text is the
\* value up to that byte.
opaque == Some([text |-> "Basic", visible |-> FALSE])

NoFilter == [f \in {QueryFields[i][1] : i \in DOMAIN QueryFields} |-> None]
Payload(name, age) == [age |-> age, name |-> name, ok |-> TRUE]
Malformed == [age |-> 0, name |-> "", ok |-> FALSE]

\* pairs, ids and owner are the key-value sequence, the ids and the owner id
\* a builder was given, when the input is a sequence of pairs or of ids.
NoBuilt ==
    [pairs |-> <<>>, ids |-> <<>>, kind |-> "none", owner |-> None, left |-> NoStmt,
     right |-> NoStmt]

\* What a request remembers of the request served before it: the verb, the
\* id it created or deleted, its payload and the headers its caller sent,
\* when that request was a POST or a DELETE of the default path answered 200.
NoLast == <<"", 0, Malformed, NoHeaders>>

IdleRequest ==
    [pc |-> "idle", verb |-> "GET", headers |-> NoHeaders, id |-> 0, body |-> Malformed,
     filter |-> NoFilter, user |-> None, owner |-> None, kind |-> "none", stmt |-> NoStmt,
     resp |-> NoResponse, fetches |-> 0, decodes |-> 0, stmts |-> 0, ran |-> FALSE,
     failed |-> FALSE, pre |-> {}, hook |-> "", args |-> <<>>, last |-> NoLast]

\* The database after the set-up of the tests: the schema and the table
\* exist and the table is empty.
Installed == Catalog(TRUE, {table_name})

\* step is the statement of the command that is sent next.
IdleCommand == [body |-> "", resp |-> NoResponse, pc |-> "idle", route |-> "", step |-> 0]

Init ==
    /\ cfg \in Configs
    /\ tbl = {}
    /\ req = IdleRequest
    /\ built = NoBuilt
    /\ catalog = Installed
    /\ cmd = IdleCommand

\* ---------------------------------------------------------------- inputs
HeaderSets ==
    {NoHeaders,
     [NoHeaders EXCEPT !.Authorization = visible("tA")],
     [NoHeaders EXCEPT !.Authorization = visible("Bearer tA")],
     [NoHeaders EXCEPT !.Authorization = visible("Bearer tB")],
     [NoHeaders EXCEPT !.Authorization = visible("Bearer tSg")]}

\* The table names sent to dropTable.
TableNames == {"TestObjects", "Users"}

PostPayloads == {Payload("John", 30), Payload("John", 101), Malformed}
PutPayloads == {Payload("Jane", 29), Payload("John", 101), Malformed}

Filters ==
    {NoFilter,
     [NoFilter EXCEPT !.name = Some("John")],
     [NoFilter EXCEPT !.age_gt = Some(29)],
     [NoFilter EXCEPT !.order_by = Some("age"), !.order_dir = Some("asc")],
     [NoFilter EXCEPT !.order_by = Some("bogus")]}
    \cup {[NoFilter EXCEPT !.id = Some(i)] : i \in Ids}

\* --------------------------------------------------------------- actions
user_id_of(user) == IF IsSome(user) THEN Some(Unwrap(user).user_id) ELSE None

\* The summary of a finished request for the one that follows it.
summary(r) ==
    IF r.pc = "done" /\ r.resp.status = 200 /\ r.kind = "create"
    THEN <<r.verb, r.resp.body[1], r.body, r.headers>>
    ELSE IF r.pc = "done" /\ r.resp.status = 200 /\ r.kind = "delete"
    THEN <<r.verb, r.id, Malformed, r.headers>>
    ELSE NoLast

\* A request arrives once the previous one is finished.  pre records the
\* table the request found; fetches, decodes, stmts and ran record what was
\* done for it: key-set fetches, token decodings, statements sent to the
\* database, whether the handler body ran and whether the database call
\* returned an error.
Arrive(verb, headers, id, body, filter) ==
    /\ req.pc \in {"idle", "done"}
    /\ cmd.pc \in {"idle", "done"}
    /\ req' = [IdleRequest EXCEPT !.pc = "extract", !.verb = verb, !.headers = headers,
                                  !.id = id, !.body = body, !.filter = filter,
                                  !.pre = tbl]
    /\ cmd' = IdleCommand
    /\ UNCHANGED <<cfg, tbl, built, catalog>>

ArriveGet == \E h \in HeaderSets, f \in Filters : Arrive("GET", h, 0, Malformed, f)
ArrivePost == \E h \in HeaderSets, b \in PostPayloads : Arrive("POST", h, 0, b, NoFilter)
ArrivePut ==
    \E h \in HeaderSets, i \in Ids, b \in PutPayloads : Arrive("PUT", h, i, b, NoFilter)
ArriveDelete == \E h \in HeaderSets, i \in Ids : Arrive("DELETE", h, i, Malformed, NoFilter)

Finish(r, resp) == [r EXCEPT !.pc = "done", !.resp = resp]

\* The handler with the Json body as its first extractor.
extracted_body_first(r, id) ==
    IF r.verb \in {"POST", "PUT"} /\ ~r.body.ok
    THEN Finish(r, Response(422, "", <<>>))
    ELSE CASE id.res.kind = "panic" -> Finish(r, NoResponse)
           [] id.res.kind = "err" -> Finish(r, Response(id.res.status, id.res.text, <<>>))
           [] id.res.kind = "ok" -> [r EXCEPT !.pc = "handler", !.user = id.res.val]

\* The request after its extractors ran: rejected by the identity
\* extractor, rejected by the Json extractor, or handed to the handler body.
extracted(r, id) ==
    CASE id.res.kind = "panic" -> Finish(r, NoResponse)
      [] id.res.kind = "err" -> Finish(r, Response(id.res.status, id.res.text, <<>>))
      [] id.res.kind = "ok" ->
            IF r.verb \in {"POST", "PUT"} /\ ~r.body.ok
            THEN Finish([r EXCEPT !.user = id.res.val], Response(422, "", <<>>))
            ELSE [r EXCEPT !.pc = "handler", !.user = id.res.val]

counted(r, id) == extracted([r EXCEPT !.fetches = id.fetches, !.decodes = id.decodes], id)

\* The request when its identity extractor reaches the key-set fetch: the
\* request for the key set is out and the task waits in
\* reqwest::get(jwks_url).await, with no identity yet.
awaiting(r) == [r EXCEPT !.pc = "get", !.fetches = 1]

\* The router and the extractors of the handler, in the order of its
\* parameters: the identity first, the Json body last.  The step runs to
\* the first await of fetch_jwks, or to the end of the extractors when the
\* identity extractor makes no fetch (no identity asked for, or the token
\* was not pulled from the headers).
Extract ==
    /\ req.pc = "extract"
    /\ UNCHANGED <<cfg, tbl, built, catalog, cmd>>
    /\ IF handlers_for(create_endpoint_router(cfg), req.verb) = {}
       THEN req' = Finish(req, no_route(cfg, req.verb))
       ELSE LET id == extract_identity(cfg, req.verb, req.headers, FALSE)
            IN req' = IF id.fetches = 0 THEN counted(req, id) ELSE awaiting(req)

\* fetch_jwks, reqwest::get(jwks_url).await: the response arrives and the
\* task goes on to await its body, or the request failed and the extractor
\* rejects with what decode_*_token makes of the error.
FetchJwksGet ==
    /\ req.pc = "get"
    /\ UNCHANGED <<cfg, tbl, built, catalog, cmd>>
    /\ \E get_ok \in BOOLEAN :
          req' = IF get_ok THEN [req EXCEPT !.pc = "json"]
                 ELSE counted(req, extract_identity(cfg, req.verb, req.headers, FALSE))

\* fetch_jwks, resp.json::<Jwks>().await: with the key set read the rest of
\* the identity extractor and the extractors after it run; json_ok is
\* whether the body was read as a key set.
FetchJwksJson ==
    /\ req.pc = "json"
    /\ UNCHANGED <<cfg, tbl, built, catalog, cmd>>
    /\ \E json_ok \in BOOLEAN :
          req' = counted(req, extract_identity(cfg, req.verb, req.headers, json_ok))

handled(r, h) ==
    [r EXCEPT !.pc = IF h.kind = "none" THEN "done" ELSE "db", !.ran = TRUE,
              !.owner = h.owner, !.kind = h.kind, !.stmt = h.stmt, !.resp = h.resp,
              !.hook = h.hook, !.args = h.args]

\* The body of the handler up to the database call.  new_id and now are
\* what Uuid::new_v4() and Utc::now() return.
Handler ==
    /\ req.pc = "handler"
    /\ UNCHANGED <<cfg, tbl, built, catalog, cmd>>
    /\ CASE req.verb = "GET" ->
               req' = handled(req, _http_get(cfg, req.filter, user_id_of(req.user)))
         [] req.verb = "POST" ->
               \E new_id \in Ids, now \in Clock :
                  req' = handled(req, _http_post(cfg, req.body, user_id_of(req.user),
                                                 new_id, now))
         [] req.verb = "PUT" ->
               req' = handled(req, _http_put(cfg, req.id, req.body, user_id_of(req.user)))
         [] req.verb = "DELETE" ->
               req' = handled(req, _http_delete(cfg, req.id, user_id_of(req.user)))

\* The database call and what the handler makes of its outcome.
Db ==
    /\ req.pc = "db"
    /\ UNCHANGED <<cfg, built, catalog, cmd>>
    /\ \E db_ok \in BOOLEAN :
       LET res == pg_execute(req.kind, req.stmt, tbl, catalog, db_ok)
           sent == [req EXCEPT !.pc = "done", !.stmts = @ + 1, !.failed = ~res.ok]
       IN CASE req.kind = "read" ->
                 /\ \E rows \in IF res.ok
                                THEN Orderings(res.rows, res.order_col, res.order_dir)
                                ELSE {<<>>} :
                       req' = [sent EXCEPT !.resp = read_result(res, rows)]
                 /\ UNCHANGED tbl
            [] req.kind = "create" ->
                 /\ req' = [sent EXCEPT !.resp = create_result(res)]
                 /\ tbl' = IF res.ok THEN res.tbl ELSE tbl
            [] req.kind = "update" ->
                 /\ req' = [sent EXCEPT !.resp = update_result(res)]
                 /\ tbl' = IF res.ok THEN res.tbl ELSE tbl
            [] req.kind = "delete" ->
                 /\ req' = [sent EXCEPT !.resp = delete_result(res)]
                 /\ tbl' = IF res.ok THEN res.tbl ELSE tbl

\* The routes of create_tables_router.  A table command arrives once the
\* previous request or command is finished; the record of that request is
\* dropped.  The body of dropTable is the JSON string naming the table.
ArriveCommand(route, body) ==
    /\ req.pc \in {"idle", "done"}
    /\ cmd.pc \in {"idle", "done"}
    /\ cmd' = [IdleCommand EXCEPT !.pc = "run", !.route = route, !.body = body, !.step = 1]
    /\ req' = IdleRequest
    /\ UNCHANGED <<cfg, tbl, built, catalog>>

ArriveInitTables == ArriveCommand("initTables", "")
ArriveResetTables == ArriveCommand("resetTables", "")
ArriveDropTable == \E body \in TableNames : ArriveCommand("dropTable", body)

\* The statements of the command being served.
statements ==
    CASE cmd.route = "initTables" -> init_tables
      [] cmd.route = "resetTables" -> reset_tables
      [] cmd.route = "dropTable" -> <<drop_table(cmd.body).query>>

\* The next statement of the command is sent and awaited: an error ends
\* the command with 500, leaving what the statements before it did; after
\* the last statement the command is answered 200.
Command ==
    /\ cmd.pc = "run"
    /\ UNCHANGED <<cfg, req, built>>
    /\ \E db_ok \in BOOLEAN :
       LET res == IF db_ok THEN pg_command(statements[cmd.step], catalog, tbl)
                  ELSE DbError
       IN IF res.ok
          THEN /\ tbl' = res.tbl
               /\ catalog' = res.cat
               /\ cmd' = IF cmd.step = Len(statements)
                         THEN [cmd EXCEPT !.pc = "done", !.resp = Response(200, "", <<>>)]
                         ELSE [cmd EXCEPT !.step = @ + 1]
          ELSE /\ cmd' = [cmd EXCEPT !.pc = "done", !.resp = Response(500, "", <<>>)]
               /\ UNCHANGED <<tbl, catalog>>

Next ==
    \/ ArriveGet
    \/ ArrivePost
    \/ ArrivePut
    \/ ArriveDelete
    \/ Extract
    \/ FetchJwksGet
    \/ FetchJwksJson
    \/ Handler
    \/ Db
    \/ ArriveInitTables
    \/ ArriveResetTables
    \/ ArriveDropTable
    \/ Command

Spec == Init /\ [][Next]_vars
\* ------------------------------------------------ requests and their tokens
\* The same server, with requests drawn for what they present as tokens.
Bearer(token) == visible("Bearer " \o token)

AuthorizationValues ==
    {opaque, visible("tA"), visible("Bearer Bearer tA")}
    \cup {Bearer(t) : t \in {"tA", "tB", "zz", "tK0", "tKx", "tK2", "tSg", "tAu", "tIs",
                              "sA", "none"}}

SubscriptionValues ==
    {opaque, visible("sA")}
    \cup {Bearer(t) : t \in {"sA", "sB", "sX", "zz", "tA", "none"}}

AuthHeaderSets ==
    {NoHeaders,
     [NoHeaders EXCEPT !.Authentication = Bearer("tA")],
     [NoHeaders EXCEPT !.Subscription = Bearer("sA")]}
    \cup {[NoHeaders EXCEPT !.Authorization = a] : a \in AuthorizationValues}
    \cup {[NoHeaders EXCEPT !.Authorization = Bearer(t), !.Subscription = s] :
             t \in {"tA", "tB", "tSg"}, s \in SubscriptionValues}

ValidPayload == Payload("John", 30)

ArriveAuth ==
    \E verb \in Verbs, h \in AuthHeaderSets : Arrive(verb, h, 1, ValidPayload, NoFilter)

NextAuth ==
    \/ ArriveAuth
    \/ Extract
    \/ FetchJwksGet
    \/ FetchJwksJson
    \/ Handler
    \/ Db

SpecAuth == Init /\ [][NextAuth]_vars

\* ------------------------------------------- requests that follow a request
\* The same server, with each request remembering the one served before it.
ArriveAfter(verb, headers, id, body, filter) ==
    /\ req.pc \in {"idle", "done"}
    /\ cmd.pc \in {"idle", "done"}
    /\ req' = [IdleRequest EXCEPT !.pc = "extract", !.verb = verb, !.headers = headers,
                                  !.id = id, !.body = body, !.filter = filter,
                                  !.pre = tbl, !.last = summary(req)]
    /\ cmd' = IdleCommand
    /\ UNCHANGED <<cfg, tbl, built, catalog>>

SeqHeaderSets ==
    {NoHeaders,
     [NoHeaders EXCEPT !.Authorization = visible("Bearer tA")],
     [NoHeaders EXCEPT !.Authorization = visible("Bearer tB")]}

SeqPayloads == {Payload("John", 30), Payload("Jane", 29)}

SeqFilters == {[NoFilter EXCEPT !.id = Some(i)] : i \in Ids}

ArriveGetAfter ==
    \E h \in SeqHeaderSets, f \in SeqFilters : ArriveAfter("GET", h, 0, Malformed, f)
ArrivePostAfter ==
    \E h \in SeqHeaderSets, b \in SeqPayloads : ArriveAfter("POST", h, 0, b, NoFilter)
ArrivePutAfter ==
    \E h \in SeqHeaderSets, i \in Ids, b \in SeqPayloads : ArriveAfter("PUT", h, i, b, NoFilter)
ArriveDeleteAfter ==
    \E h \in SeqHeaderSets, i \in Ids : ArriveAfter("DELETE", h, i, Malformed, NoFilter)

NextSeq ==
    \/ ArriveGetAfter
    \/ ArrivePostAfter
    \/ ArriveDeleteAfter
    \/ Extract
    \/ FetchJwksGet
    \/ FetchJwksJson
    \/ Handler
    \/ Db
    \/ ArriveInitTables
    \/ ArriveResetTables
    \/ ArriveDropTable
    \/ Command

SpecSeq == Init /\ [][NextSeq]_vars

\* The entities whose GET and PUT have caller scope AUTHENTICATED and object
\* scope OWNER: the POST route identifies the caller, or it is an ANY route.
OwnEntities == {PermissionsEntity, DropboxEntity}

InitOwn ==
    /\ cfg \in OwnEntities
    /\ tbl = {}
    /\ req = IdleRequest
    /\ built = NoBuilt
    /\ catalog = Installed
    /\ cmd = IdleCommand

\* The requests of every verb and the table commands on such an entity.
NextOwn ==
    \/ ArriveGetAfter
    \/ ArrivePostAfter
    \/ ArrivePutAfter
    \/ ArriveDeleteAfter
    \/ Extract
    \/ FetchJwksGet
    \/ FetchJwksJson
    \/ Handler
    \/ Db
    \/ ArriveInitTables
    \/ ArriveResetTables
    \/ ArriveDropTable
    \/ Command

SpecOwn == InitOwn /\ [][NextOwn]_vars

\* ------------------------------------------------- the builders on their own
\* A query builder applied once to two inputs of the same shape: the same
\* field names are present and the owner is present in both or in neither.
FilterNames == {QueryFields[i][1] : i \in DOMAIN QueryFields}
Shapes == {S \in SUBSET FilterNames : Cardinality(S) <= MaxPairs}

\* The k-th of the two values a query parameter takes.
QueryValue(f, k) ==
    CASE f = "order_by" -> <<"age", "name">>[k]
      [] f = "order_dir" -> <<"asc", "desc">>[k]
      [] f \in {"name", "status"} -> <<"John", "Jane">>[k]
      [] f = "id" -> k
      [] f \in {"date_created_gt", "date_created_lt"} -> k
      [] OTHER -> <<29, 30>>[k]

FilterOf(S, c) == [f \in FilterNames |-> IF f \in S THEN Some(QueryValue(f, c[f])) ELSE None]
Owners == {<<None, None>>} \cup {<<Some(a), Some(b)>> : a, b \in {"u1", "u2"}}

Built(kind, left, right) ==
    [pairs |-> <<>>, ids |-> <<>>, kind |-> kind, owner |-> None, left |-> left,
     right |-> right]

BuildRead ==
    /\ built = NoBuilt
    /\ \E S \in Shapes, o \in Owners : \E c1, c2 \in [S -> {1, 2}] :
          built' = Built("read", read(key_value_pairs_query(FilterOf(S, c1)), o[1]),
                                 read(key_value_pairs_query(FilterOf(S, c2)), o[2]))
    /\ UNCHANGED <<cfg, tbl, req, catalog, cmd>>

BuildCreate ==
    /\ built = NoBuilt
    /\ \E p1, p2 \in {Payload("John", 30), Payload("Jane", 29)}, o \in Owners,
           i1, i2 \in Ids, now \in Clock :
          built' = Built("create",
                         create(key_value_pairs_object(add_set_values(p1, o[1], i1, now))),
                         create(key_value_pairs_object(add_set_values(p2, o[2], i2, now))))
    /\ UNCHANGED <<cfg, tbl, req, catalog, cmd>>

BuildUpdate ==
    /\ built = NoBuilt
    /\ \E p1, p2 \in {Payload("John", 30), Payload("Jane", 29)}, o \in Owners,
           i1, i2 \in Ids :
          built' = Built("update", update(i1, key_value_pairs_input(p1), o[1]),
                                   update(i2, key_value_pairs_input(p2), o[2]))
    /\ UNCHANGED <<cfg, tbl, req, catalog, cmd>>

BuildDelete ==
    /\ built = NoBuilt
    /\ \E o \in Owners, i1, i2 \in Ids :
          built' = Built("delete", delete(<<i1>>, o[1]), delete(<<i2>>, o[2]))
    /\ UNCHANGED <<cfg, tbl, req, catalog, cmd>>

\* The text drop_table formats for two bodies; nothing is executed here.
BuildDrop ==
    /\ built = NoBuilt
    /\ \E b1, b2 \in TableNames :
          built' = Built("drop", drop_table(b1), drop_table(b2))
    /\ UNCHANGED <<cfg, tbl, req, catalog, cmd>>

InitSql ==
    /\ cfg = PermissionsEntity
    /\ tbl = {}
    /\ req = IdleRequest
    /\ built = NoBuilt
    /\ catalog = Installed
    /\ cmd = IdleCommand

NextSql ==
    \/ BuildRead
    \/ BuildCreate
    \/ BuildUpdate
    \/ BuildDelete
    \/ BuildDrop

SpecSql == InitSql /\ [][NextSql]_vars

\* ------------------------------------------------- read on sequences of pairs
\* The pairs a KeyValue projection of query parameters may hold: names
\* shorter than three characters, of three characters, with and without a
\* comparison suffix, and the two reserved names with string and other
\* values.
FilterPairs ==
    {<<"a", FV_INTEGER(1)>>, <<"age", FV_INTEGER(29)>>, <<"name", FV_STRING("John")>>,
     <<"len_eq", FV_INTEGER(1)>>,
     <<"_gt", FV_INTEGER(1)>>, <<"_lt", FV_INTEGER(1)>>,
     <<"_ge", FV_INTEGER(1)>>, <<"_le", FV_INTEGER(1)>>,
     <<"age_gt", FV_INTEGER(29)>>, <<"age_lt", FV_INTEGER(30)>>,
     <<"age_ge", FV_INTEGER(29)>>, <<"age_le", FV_INTEGER(30)>>,
     <<"order_by", FV_STRING("age")>>, <<"order_by", FV_STRING("name")>>,
     <<"order_by", FV_INTEGER(1)>>,
     <<"order_dir", FV_STRING("asc")>>, <<"order_dir", FV_STRING("desc")>>,
     <<"order_dir", FV_STRING("ASC")>>, <<"order_dir", FV_INTEGER(1)>>}

PairSeqs == UNION {[1..n -> FilterPairs] : n \in 0..MaxPairs}

PairOwners == {None, Some("u1")}

\* read applied to a sequence of pairs.
BuildReadPairs ==
    /\ built = NoBuilt
    /\ \E pairs \in PairSeqs, o \in PairOwners :
          built' = [Built("pairs", read(pairs, o), read(pairs, o))
                       EXCEPT !.pairs = pairs, !.owner = o]
    /\ UNCHANGED <<cfg, tbl, req, catalog, cmd>>

\* The pairs a KeyValue projection of an input payload may hold: columns of
\* the table with values of their types.
SetPairs ==
    {<<"name", FV_STRING("John")>>, <<"name", FV_STRING("Jane")>>,
     <<"age", FV_INTEGER(29)>>, <<"status", FV_STRING("active")>>,
     <<"date_created", FV_DATE(1)>>}

SetSeqs == UNION {[1..n -> SetPairs] : n \in 1..MaxPairs}

\* update applied to a non-empty sequence of pairs.
BuildUpdatePairs ==
    /\ built = NoBuilt
    /\ \E pairs \in SetSeqs, id \in Ids, o \in PairOwners :
          built' = [Built("sets", update(id, pairs, o), update(id, pairs, o))
                       EXCEPT !.pairs = pairs, !.ids = <<id>>, !.owner = o]
    /\ UNCHANGED <<cfg, tbl, req, catalog, cmd>>

\* The lists of ids delete may be given, and the tables it may find: rows
\* of two owners, no id twice.
IdSeqs == UNION {[1..n -> Ids] : n \in 1..MaxPairs}

PairRows ==
    {add_set_values(ValidPayload, Some(u), i, 1) : i \in Ids, u \in {"u1", "u2"}}

PairTables == {T \in SUBSET PairRows : \A r1, r2 \in T : r1.id = r2.id => r1 = r2}

NextPairs ==
    \/ BuildReadPairs
    \/ BuildUpdatePairs

SpecPairs == InitSql /\ [][NextPairs]_vars

\* ------------------------------------------------- delete on a list of ids
\* delete is called on a table that holds any of the rows of PairTables.
InitIds ==
    /\ cfg = PermissionsEntity
    /\ tbl \in PairTables
    /\ req = IdleRequest
    /\ built = NoBuilt
    /\ catalog = Installed
    /\ cmd = IdleCommand

\* delete applied to a non-empty list of ids, up to its database call: the
\* text is built, the ids and the owner id are bound, and the task waits in
\* q.execute(connection_pool).await.
DeleteIds ==
    /\ built = NoBuilt
    /\ \E ids \in IdSeqs, o \in PairOwners :
          LET stmt == delete(ids, o)
          IN /\ built' = [Built("ids", stmt, stmt) EXCEPT !.ids = ids, !.owner = o]
             /\ req' = [IdleRequest EXCEPT !.pc = "db", !.owner = o, !.kind = "delete",
                                           !.stmt = stmt, !.ran = TRUE]
    /\ UNCHANGED <<cfg, tbl, catalog, cmd>>

\* The database runs the statement against the table as it is now and
\* delete makes its answer of the outcome; pre records the table the
\* statement found.
ExecuteIds ==
    /\ req.pc = "db"
    /\ UNCHANGED <<cfg, built, catalog, cmd>>
    /\ \E db_ok \in BOOLEAN :
          LET res == pg_execute("delete", req.stmt, tbl, catalog, db_ok)
          IN /\ req' = [req EXCEPT !.pc = "done", !.resp = delete_result(res),
                                   !.stmts = 1, !.failed = ~res.ok, !.pre = tbl]
             /\ tbl' = IF res.ok THEN res.tbl ELSE tbl

\* The statement of the delete of another task runs at the database, before
\* or after the one above: the handlers call delete with one id.
OtherDelete ==
    /\ \E id \in Ids, o \in PairOwners :
          LET res == pg_execute("delete", delete(<<id>>, o), tbl, catalog, TRUE)
          IN tbl' = IF res.ok THEN res.tbl ELSE tbl
    /\ UNCHANGED <<cfg, req, built, catalog, cmd>>

NextIds ==
    \/ DeleteIds
    \/ ExecuteIds
    \/ OtherDelete

SpecIds == InitIds /\ [][NextIds]_vars

\* ------------------------------------------------ two requests in flight
\* The server runs every request in a task of its own; the tasks share the
\* connection pool and nothing else, and the database executes each
\* statement atomically.  Under SpecRace req is the pair of the requests of
\* two tasks: the first a DELETE, the second a DELETE or a PUT, on a table
\* that holds rows; a table command may be served in place of the second
\* request.  Each task goes through the extractors, with the two awaits of
\* the key-set fetch inside the identity extractor, the handler body and
\* the database call of its request, a command through its statements; the
\* steps of the tasks interleave.  pre is the table the statement of a
\* request found.
Tasks == {1, 2}

RaceEntities == {PermissionsEntity, GeneralEntity, DropboxEntity}

RaceHeaders ==
    {[NoHeaders EXCEPT !.Authorization = visible("Bearer tA")],
     [NoHeaders EXCEPT !.Authorization = visible("Bearer tB")]}

RacePayload == Payload("Jane", 29)

RaceVerbs == <<{"DELETE"}, {"DELETE", "PUT"}>>

RaceCommands == {"initTables", "resetTables", "dropTable"}

InitRace ==
    /\ cfg \in RaceEntities
    /\ tbl \in PairTables \ {{}}
    /\ req = <<IdleRequest, IdleRequest>>
    /\ built = NoBuilt
    /\ catalog = Installed
    /\ cmd = IdleCommand

ArriveRace(i) ==
    /\ req[i].pc = "idle"
    /\ i = 2 => cmd.pc = "idle"
    /\ \E verb \in RaceVerbs[i], h \in RaceHeaders, id \in Ids :
          req' = [req EXCEPT ![i] =
                     [IdleRequest EXCEPT !.pc = "extract", !.verb = verb, !.headers = h,
                                         !.id = id,
                                         !.body = IF verb = "PUT" THEN RacePayload
                                                  ELSE Malformed,
                                         !.pre = tbl]]
    /\ UNCHANGED <<cfg, tbl, built, catalog, cmd>>

ExtractRace(i) ==
    /\ req[i].pc = "extract"
    /\ UNCHANGED <<cfg, tbl, built, catalog, cmd>>
    /\ IF handlers_for(create_endpoint_router(cfg), req[i].verb) = {}
       THEN req' = [req EXCEPT ![i] = Finish(req[i], no_route(cfg, req[i].verb))]
       ELSE LET id == extract_identity(cfg, req[i].verb, req[i].headers, FALSE)
            IN req' = [req EXCEPT ![i] = IF id.fetches = 0 THEN counted(req[i], id)
                                         ELSE awaiting(req[i])]

\* Task i waits in the key-set fetch while the other task and the table
\* command take their steps.
FetchJwksGetRace(i) ==
    /\ req[i].pc = "get"
    /\ UNCHANGED <<cfg, tbl, built, catalog, cmd>>
    /\ \E get_ok \in BOOLEAN :
          req' = [req EXCEPT ![i] =
                     IF get_ok THEN [req[i] EXCEPT !.pc = "json"]
                     ELSE counted(req[i], extract_identity(cfg, req[i].verb,
                                                           req[i].headers, FALSE))]

FetchJwksJsonRace(i) ==
    /\ req[i].pc = "json"
    /\ UNCHANGED <<cfg, tbl, built, catalog, cmd>>
    /\ \E json_ok \in BOOLEAN :
          req' = [req EXCEPT ![i] =
                     counted(req[i], extract_identity(cfg, req[i].verb,
                                                      req[i].headers, json_ok))]

HandlerRace(i) ==
    /\ req[i].pc = "handler"
    /\ UNCHANGED <<cfg, tbl, built, catalog, cmd>>
    /\ CASE req[i].verb = "PUT" ->
               req' = [req EXCEPT ![i] =
                          handled(req[i], _http_put(cfg, req[i].id, req[i].body,
                                                    user_id_of(req[i].user)))]
         [] req[i].verb = "DELETE" ->
               req' = [req EXCEPT ![i] =
                          handled(req[i], _http_delete(cfg, req[i].id,
                                                       user_id_of(req[i].user)))]

\* The statement of task i runs against the table as it is now.
DbRace(i) ==
    /\ req[i].pc = "db"
    /\ UNCHANGED <<cfg, built, catalog, cmd>>
    /\ \E db_ok \in BOOLEAN :
       LET res == pg_execute(req[i].kind, req[i].stmt, tbl, catalog, db_ok)
           sent == [req[i] EXCEPT !.pc = "done", !.stmts = @ + 1, !.failed = ~res.ok,
                                  !.pre = tbl]
       IN /\ tbl' = IF res.ok THEN res.tbl ELSE tbl
          /\ CASE req[i].kind = "update" ->
                    req' = [req EXCEPT ![i] = [sent EXCEPT !.resp = update_result(res)]]
               [] req[i].kind = "delete" ->
                    req' = [req EXCEPT ![i] = [sent EXCEPT !.resp = delete_result(res)]]

\* A table command may take the place of the second request: its
\* statements interleave with the steps of the first.
ArriveCommandRace ==
    /\ cmd.pc = "idle"
    /\ req[2].pc = "idle"
    /\ \E route \in RaceCommands :
          cmd' = [IdleCommand EXCEPT !.pc = "run", !.route = route,
                                    !.body = IF route = "dropTable" THEN table_name ELSE "",
                                    !.step = 1]
    /\ UNCHANGED <<cfg, tbl, req, built, catalog>>

NextRace ==
    \/ \E i \in Tasks :
          \/ ArriveRace(i)
          \/ ExtractRace(i)
          \/ FetchJwksGetRace(i)
          \/ FetchJwksJsonRace(i)
          \/ HandlerRace(i)
          \/ DbRace(i)
    \/ ArriveCommandRace
    \/ Command

SpecRace == InitRace /\ [][NextRace]_vars

\* ------------------------------------------------------------- properties
\* C1: every statement the builders and the table-management handlers
\* generate has a text that does not depend on request-supplied values:
\* two inputs of the same shape yield character-identical SQL text.
C1_TextIndependentOfValues == built.left.query = built.right.query

\* The positions of a request whose extractors have not finished.
Extracting == {"idle", "extract", "get", "json"}

\* The verb of the request has a route and the route asks for an identity.
Protected == cfg.include[req.verb] /\ cfg.access[req.verb] \in {"AUTHENTICATED", "ADMIN"}

\* The kids of the keys of the key set that make a decoding key.
GoodKids == {Some(k.kid) : k \in {j \in Range(Jwks) : j.rsa_ok}}

\* The token the Authorization header of the request presents.
Presented == replace_with_empty(Unwrap(req.headers.Authorization).text, "Bearer ")

\* The request presents, with the Bearer prefix, an access token signed by a
\* key of the key set for the audience and issuer of the server.
Genuine ==
    /\ IsSome(req.headers.Authorization)
    /\ Unwrap(req.headers.Authorization).visible
    /\ starts_with(Unwrap(req.headers.Authorization).text, "Bearer ")
    /\ Presented \in DOMAIN Jwt
    /\ Jwt[Presented].alg = "RS256"
    /\ Jwt[Presented].kid \in GoodKids
    /\ Jwt[Presented].signer = Unwrap(Jwt[Presented].kid)
    /\ Jwt[Presented].aud = AUTH0_AUDIENCE /\ Jwt[Presented].iss = AUTH0_ISSUER

Permitted == Genuine /\ "read:admin" \in Range(Jwt[Presented].claims.permissions)

\* The request reached the body of its handler.
InHandler == req.pc = "handler" \/ req.ran

\* The request was turned away by an extractor.
Rejected == req.pc = "done" /\ ~req.ran /\ req.stmts = 0 /\ tbl = req.pre

\* The request carries no token that verifies on its route: no Authorization
\* header, no Bearer prefix, a token that is not validly signed, or, on an
\* ADMIN route, a token without the permission.
Unverifiable == ~Genuine \/ (cfg.access[req.verb] = "ADMIN" /\ ~Permitted)

\* C2: on an AUTHENTICATED or ADMIN route the identity check completes
\* before any statement is built or sent: the handler body runs, a
\* statement exists or the table differs from the one the request found
\* only for a request whose token verified; a rejected request executes no
\* statement and leaves the table unchanged.
C2_IdentityBeforeSql ==
    (Protected /\ req.pc \notin Extracting) =>
        /\ (req.pc \in {"handler", "db"} \/ req.ran \/ req.stmt # NoStmt \/ req.stmts > 0
               \/ tbl # req.pre)
              => (IsSome(req.user) /\ ~Unverifiable)
        /\ Unverifiable =>
              (req.pc = "done" /\ ~IsSome(req.user) /\ ~req.ran /\ req.stmts = 0
                 /\ req.stmt = NoStmt /\ tbl = req.pre)

\* A request with an invalid token was rejected while the table held rows.
C2_Witness ==
    /\ Protected /\ req.pc = "done" /\ tbl # {}
    /\ req.headers.Authorization = visible("Bearer tSg")
    /\ req.verb = "DELETE" /\ req.id \in {r.id : r \in tbl}
    /\ req.stmts = 0

\* The request came through the default path of a verb whose caller scope
\* is AUTHENTICATED and whose object scope is OWNER, and the database
\* executed its statement.
OwnerScoped(verb) ==
    /\ req.verb = verb /\ cfg.include[verb] /\ ~cfg.custom[verb]
    /\ cfg.access[verb] = "AUTHENTICATED" /\ cfg.object[verb] = "OWNER"
    /\ req.pc = "done" /\ req.stmts = 1 /\ ~req.failed

\* The row of the table the request found that has the id the request names.
Target == {r \in req.pre : r.id = req.id}

\* The entity of C3: GET and PUT, both of the default path, have caller
\* scope AUTHENTICATED and object scope OWNER.
Private ==
    \A verb \in {"GET", "PUT"} :
        /\ cfg.include[verb] /\ ~cfg.custom[verb]
        /\ cfg.access[verb] = "AUTHENTICATED" /\ cfg.object[verb] = "OWNER"

\* The request directly follows the POST, answered 200, that created the
\* row with the id req.last[2]; the caller of that POST, caller A, sent the
\* headers req.last[4].
Created == req.last[1] = "POST"

\* The caller of the request is the caller of that POST: it presents the
\* same token.
ByCreator == req.headers = req.last[4]

\* The user_id of the caller the route identified.
Caller == Unwrap(req.user).user_id

\* The owner add_set_values stamped on the row that POST created: the
\* user_id of caller A when the POST route identifies the caller, the
\* anonymous default when it is an ANY route, whatever token A presented.
CreatorStamp ==
    IF cfg.access["POST"] = "ANY" THEN "nobody"
    ELSE Jwt[replace_with_empty(Unwrap(req.last[4].Authorization).text, "Bearer ")]
            .claims.sub

\* The row with the payload of the PUT in place of the row it names.
Put(r) == (req.pre \ {r}) \cup {[r EXCEPT !.name = req.body.name, !.age = req.body.age]}

\* C3 as stated: the row caller A created is not in the result of a GET by
\* another caller; a valid PUT on its id by another caller is answered 400
\* and leaves the table as it was; the same PUT by A is answered 200 and
\* sets the columns of the payload in that row.
C3_CreatorIsolation ==
    /\ (Private /\ Created /\ OwnerScoped("GET") /\ ~ByCreator) =>
          \A i \in DOMAIN req.resp.body : req.resp.body[i].id # req.last[2]
    /\ (Private /\ Created /\ OwnerScoped("PUT") /\ req.id = req.last[2]) =>
          \A r \in Target :
              IF ~ByCreator
              THEN req.resp.status = 400 /\ tbl = req.pre
              ELSE req.resp.status = 200 /\ tbl = Put(r)

\* C3, amended: the owner of a row is the user_id stamped on it when it was
\* created, the creator's user_id on a POST route that identifies the caller
\* and the anonymous default on an ANY route.  After any sequence of
\* requests a GET returns only rows the caller owns, a valid PUT on a row
\* of another owner is answered 400 and leaves the table as it was, and a
\* valid PUT on a row the caller owns is answered 200 and sets the columns
\* of the payload in that row and nothing else.  So the row A created
\* through an identifying POST route is hidden from B and changed by A
\* alone, and the row A created through an ANY route is hidden from every
\* identified caller, A included, whose PUT is answered 400.
C3_OwnershipIsolation ==
    /\ OwnerScoped("GET") =>
          \A i \in DOMAIN req.resp.body : req.resp.body[i].user_id = Caller
    /\ OwnerScoped("PUT") =>
          \A r \in Target :
              IF r.user_id # Caller
              THEN req.resp.status = 400 /\ tbl = req.pre
              ELSE req.resp.status = 200 /\ tbl = Put(r)
    /\ (Created /\ (OwnerScoped("GET") \/ OwnerScoped("PUT"))) =>
          \E r \in req.pre : r.id = req.last[2] /\ r.user_id = CreatorStamp
    /\ (Created /\ OwnerScoped("GET")) =>
          \A i \in DOMAIN req.resp.body :
              req.resp.body[i].id = req.last[2] => Caller = CreatorStamp
    /\ (Created /\ OwnerScoped("PUT") /\ req.id = req.last[2]) =>
          /\ Target # {}
          /\ req.resp.status = IF Caller = CreatorStamp THEN 200 ELSE 400
          /\ (ByCreator /\ cfg.access["POST"] # "ANY") => req.resp.status = 200
          /\ (~ByCreator /\ cfg.access["POST"] # "ANY") => req.resp.status = 400
          /\ cfg.access["POST"] = "ANY" => req.resp.status = 400 /\ tbl = req.pre

\* Caller u1 created a row through a POST route that identifies the caller;
\* the PUT of caller u2 on its id, which directly followed, was answered 400
\* and the row is as u1 posted it.
C3_Witness ==
    /\ Private /\ Created /\ OwnerScoped("PUT") /\ req.id = req.last[2]
    /\ cfg.access["POST"] = "AUTHENTICATED" /\ ~ByCreator
    /\ CreatorStamp = "u1" /\ Caller = "u2"
    /\ req.resp.status = 400
    /\ \E r \in tbl : r.id = req.id /\ r.user_id = "u1" /\ r.name = req.last[3].name
                       /\ r.name # req.body.name

\* The owner id the handler body is to resolve for the request.
ExpectedOwner ==
    IF cfg.object[req.verb] = "ALL" \/ ~IsSome(req.user) THEN None
    ELSE Some(Unwrap(req.user).user_id)

\* An anonymous request on a verb of object scope OWNER whose statement the
\* database executed.
AnonymousOwner ==
    /\ cfg.access[req.verb] = "ANY" /\ cfg.object[req.verb] = "OWNER" /\ ~cfg.custom[req.verb]
    /\ req.pc = "done" /\ req.stmts = 1 /\ ~req.failed

\* C4: for GET, PUT and DELETE the owner id handed to the query builder or
\* the custom hook is absent under object scope ALL, the caller's verified
\* user_id under OWNER when there is an identity, and absent under OWNER
\* for an anonymous caller; the statement has a user_id predicate exactly
\* when the owner id is present, and without it rows of every owner match.
C4_OwnerResolution ==
    (req.ran /\ req.verb \in {"GET", "PUT", "DELETE"}) =>
        /\ req.owner = ExpectedOwner
        /\ req.kind # "none" =>
              /\ ("user_id" \in Range(Words(req.stmt.query))) <=> IsSome(req.owner)
              /\ IsSome(req.owner) => FV_STRING(Unwrap(req.owner)) \in Range(req.stmt.bindings)
        /\ (AnonymousOwner /\ req.verb = "DELETE" /\ Target # {}) =>
              (req.resp.status = 200 /\ tbl = req.pre \ Target)
        /\ (AnonymousOwner /\ req.verb = "GET" /\ req.filter = NoFilter) =>
              Range(req.resp.body) = req.pre

\* An anonymous DELETE under object scope OWNER deleted a row of caller u1.
C4_Witness ==
    /\ AnonymousOwner /\ req.verb = "DELETE" /\ req.resp.status = 200
    /\ \E r \in Target : r.user_id = "u1"
    /\ req.owner = None

\* C5: the caller scope of the verb decides the handling of identity.  On
\* an ANY route nothing is fetched or decoded, whatever the headers, and the
\* handler body runs with no identity; on an AUTHENTICATED route the body
\* runs only for a verified token, on an ADMIN route only for a verified
\* token with the permission; any other request is rejected.
C5_CallerScope ==
    (cfg.include[req.verb] /\ req.pc \notin Extracting) =>
        CASE cfg.access[req.verb] = "ANY" ->
                /\ req.fetches = 0 /\ req.decodes = 0 /\ req.user = None
                /\ InHandler \/ ~req.body.ok
          [] cfg.access[req.verb] = "AUTHENTICATED" ->
                /\ InHandler => (Genuine /\ IsSome(req.user))
                /\ ~Genuine => Rejected
          [] cfg.access[req.verb] = "ADMIN" ->
                /\ InHandler => (Permitted /\ IsSome(req.user))
                /\ ~Permitted => Rejected

\* On an ANY route a request presenting an invalid token was served with
\* no identity and no fetch.
C5_Witness ==
    /\ cfg.access[req.verb] = "ANY" /\ cfg.include[req.verb]
    /\ req.headers.Authorization = Bearer("tSg")
    /\ req.pc = "done" /\ req.ran /\ req.resp.status = 200
    /\ req.fetches = 0 /\ req.user = None

\* A DELETE on a route of caller scope ADMIN was answered.
AdminDelete ==
    /\ req.verb = "DELETE" /\ cfg.include["DELETE"] /\ ~cfg.custom["DELETE"]
    /\ cfg.access["DELETE"] = "ADMIN" /\ req.pc = "done"

\* The key set was fetched and the token decoded under it.
KeySetFetched == req.decodes >= 1

\* The database executed the statement of the request.
Executed == req.stmts = 1 /\ ~req.failed

\* The owner predicate of the DELETE admits the row: there is none under
\* object scope ALL, and under OWNER it names the subject of the token.
Admits(r) == cfg.object["DELETE"] = "ALL" \/ r.user_id = Unwrap(req.user).user_id

\* C6 as stated: on an ADMIN DELETE route a request without token is
\* answered 401, one with a valid token without "read:admin" is answered
\* 401 and deletes nothing, and one with a valid token with the permission
\* is answered 200 for every existing row, which is then gone.
C6_AdminDeleteAnyRow ==
    AdminDelete =>
        /\ ~IsSome(req.headers.Authorization) => (req.resp.status = 401 /\ Rejected)
        /\ (Genuine /\ ~Permitted /\ KeySetFetched) => (req.resp.status = 401 /\ Rejected)
        /\ (Permitted /\ Executed) =>
              \A r \in Target : req.resp.status = 200 /\ tbl = req.pre \ {r}

\* C6, amended: as above, but the valid admin token is answered 200 only
\* for an existing row the owner predicate admits; a row of another owner
\* under object scope OWNER is answered 400 and stays.  A row deleted is in
\* no result of a GET until a POST creates its id again, as the rows a GET
\* returns are rows of the table.
C6_AdminDeleteAdmittedRow ==
    /\ AdminDelete =>
          /\ ~IsSome(req.headers.Authorization) => (req.resp.status = 401 /\ Rejected)
          /\ (Genuine /\ ~Permitted /\ KeySetFetched) =>
                (req.resp.status = 401 /\ Rejected)
          /\ (Permitted /\ Executed) =>
                \A r \in Target :
                    IF Admits(r)
                    THEN /\ req.resp.status = 200
                         /\ tbl = req.pre \ {r}
                         /\ \A t \in tbl : t.id # req.id
                    ELSE req.resp.status = 400 /\ tbl = req.pre
    /\ (req.verb = "GET" /\ req.pc = "done" /\ req.resp.status = 200) =>
          Range(req.resp.body) \subseteq tbl

\* A valid admin token deleted a row while another row stayed.
C6_Witness ==
    /\ AdminDelete /\ Permitted /\ req.resp.status = 200
    /\ Target # {} /\ tbl # {} /\ tbl = req.pre \ Target

\* C7: on an AUTHENTICATED or ADMIN route a request without Authorization
\* header, also one with its token under another header name, and a request
\* whose Authorization value does not start with "Bearer " are answered 401
\* before any key-set fetch or token decoding.
C7_NoTokenIs401 ==
    (Protected /\ req.pc \notin Extracting
       /\ (~IsSome(req.headers.Authorization)
              \/ ~starts_with(Unwrap(req.headers.Authorization).text, "Bearer "))) =>
        /\ Rejected /\ req.resp.status = 401
        /\ req.fetches = 0 /\ req.decodes = 0

\* The token the Subscription header of the request presents.
Secondary == replace_with_empty(Unwrap(req.headers.Subscription).text, "Bearer ")

\* The Subscription header holds, with the Bearer prefix, a token that
\* verifies under the shared secret for the audience and issuer of the
\* server and whose clerk_id is the subject of the access token.
Bound ==
    /\ Unwrap(req.headers.Subscription).visible
    /\ starts_with(Unwrap(req.headers.Subscription).text, "Bearer ")
    /\ Secondary \in DOMAIN Jwt
    /\ Jwt[Secondary].alg = "HS256" /\ Jwt[Secondary].signer = JWT_SECRET
    /\ Jwt[Secondary].aud = JWT_AUDIENCE /\ Jwt[Secondary].iss = JWT_ISSUER
    /\ Genuine /\ Jwt[Secondary].claims.clerk_id = Jwt[Presented].claims.sub

\* C8: on an AUTHENTICATED route a request with a Subscription header is
\* accepted only if the header holds a token that verifies under the shared
\* secret and names the subject of the access token; the accepted identity
\* has the tier that token claims, and any other value of the header is
\* answered 401.
C8_SubscriptionBound ==
    (cfg.include[req.verb] /\ cfg.access[req.verb] = "AUTHENTICATED"
       /\ IsSome(req.headers.Subscription) /\ req.pc \notin Extracting) =>
        /\ InHandler =>
              (Bound /\ Unwrap(req.user).subscription = Jwt[Secondary].claims.subscription)
        /\ (~Bound /\ (KeySetFetched \/ req.fetches = 0)) =>
              (Rejected /\ req.resp.status = 401)

\* Tokens that fail verification, one per check: no decodable header, no
\* kid, a kid not in the key set, a signature mismatch, an audience
\* mismatch, an issuer mismatch.
FailingTokens == {"zz", "tK0", "tKx", "tSg", "tAu", "tIs"}
FailingHeaders == {Bearer(t) : t \in FailingTokens}

\* The rejection text of the extractor of the route.
RejectionText ==
    IF cfg.access[req.verb] = "ADMIN" THEN "Error decoding token" ELSE "Error decoding auth token"

\* C9: a bearer token that fails verification is answered the same
\* whichever check fails: on a given route the unparsable token, the
\* missing kid, the unknown kid, the signature, audience and issuer
\* mismatches all get status 401 with one and the same text.
C9_FailuresCollapse ==
    (Protected /\ req.pc = "done" /\ KeySetFetched
       /\ req.headers.Authorization \in FailingHeaders) =>
        /\ req.resp = Response(401, RejectionText, <<>>)
        /\ Rejected

\* An audience mismatch was answered 401 with the text of the route.
C9_Witness ==
    /\ Protected /\ req.pc = "done" /\ KeySetFetched
    /\ req.headers.Authorization = Bearer("tAu")
    /\ req.resp.status = 401

\* The rows the statement of the request affects: those with the id of the
\* request that the owner predicate, if any, admits.
Affected == {r \in Target : ~IsSome(req.owner) \/ r.user_id = Unwrap(req.owner)}

\* C10: the default UPDATE and DELETE paths answer 200 when the statement
\* affected a row, 400 when it ran and affected none, and 500 when the
\* database call failed; a response is returned in each of the three cases.
C10_ThreeStatuses ==
    (req.pc = "done" /\ req.kind \in {"update", "delete"} /\ req.stmts = 1) =>
        /\ req.resp.status \in {200, 400, 500}
        /\ req.failed <=> req.resp.status = 500
        /\ ~req.failed => (req.resp.status = 200 <=> Affected # {})

\* The body of a POST or PUT handler ran on a payload that deserialized and
\* fails the self-check verify().
InvalidPayload ==
    /\ req.verb \in {"POST", "PUT"} /\ req.ran
    /\ req.body.ok /\ ~verify(req.body)

\* C11: a POST or PUT whose payload fails verify() is answered 400; no
\* statement is built or executed, no custom hook is called and the table
\* is the one the request found, on routes of every caller scope and
\* whether or not the verb is flagged custom.
C11_InvalidPayloadIs400 ==
    InvalidPayload =>
        /\ req.pc = "done" /\ req.resp.status = 400
        /\ req.kind = "none" /\ req.stmt = NoStmt /\ req.stmts = 0
        /\ req.hook = ""
        /\ tbl = req.pre

\* A PUT flagged custom with an invalid payload was answered 400 while the
\* table held rows.
C11_Witness ==
    /\ InvalidPayload /\ req.verb = "PUT" /\ cfg.custom["PUT"]
    /\ req.resp.status = 400 /\ tbl # {}

\* A GET of the default path, filtered on the id the POST served just before
\* it returned, sent by the caller of that POST, was executed by the database.
RoundTrip ==
    /\ req.verb = "GET" /\ req.pc = "done" /\ ~cfg.custom["GET"]
    /\ req.last[1] = "POST"
    /\ req.filter = [NoFilter EXCEPT !.id = Some(req.last[2])]
    /\ req.headers = req.last[4]
    /\ Executed

\* The owner add_set_values stamped on the row of that POST: the user_id of
\* the caller, which is the subject of the token it presents, or the
\* anonymous default on an ANY route.
Stamped ==
    IF cfg.access["POST"] = "ANY" THEN "nobody" ELSE Jwt[Presented].claims.sub

\* The one object a round trip is to return.
Posted(o) ==
    /\ o.id = req.last[2]
    /\ o.name = req.last[3].name /\ o.age = req.last[3].age
    /\ o.user_id = Stamped
    /\ o \in tbl

\* C12 as stated: the GET of a round trip returns exactly one object: it
\* has the id the POST returned, the posted payload fields and the stamped
\* owner, and it is the stored row.
C12_RoundTrip ==
    RoundTrip =>
        /\ req.resp.status = 200
        /\ Len(req.resp.body) = 1
        /\ Posted(req.resp.body[1])

\* C12, amended: the stored row has the id the POST returned, the posted
\* payload fields and the stamped owner; the GET returns exactly that
\* object when its statement has no owner predicate or the owner it names is
\* the stamped one, and the empty list when it names another owner, as it
\* does for a caller identified by the GET route whose POST route is ANY.
C12_RoundTripOwned ==
    RoundTrip =>
        /\ req.resp.status = 200
        /\ \E o \in tbl : Posted(o)
        /\ IF ~IsSome(req.owner) \/ Unwrap(req.owner) = Stamped
           THEN Len(req.resp.body) = 1 /\ Posted(req.resp.body[1])
           ELSE req.resp.body = <<>> /\ cfg.access["POST"] = "ANY"

\* A caller read back, among two rows, the row it had just posted.
C12_Witness ==
    /\ RoundTrip /\ IsSome(req.owner) /\ Cardinality(tbl) = 2
    /\ Len(req.resp.body) = 1 /\ Posted(req.resp.body[1])
    /\ req.resp.body[1].user_id = "u2" /\ req.resp.body[1].name = "Jane"

\* A DELETE of the default path whose statement the database executed.
DeleteExecuted ==
    /\ req.verb = "DELETE" /\ req.pc = "done" /\ ~cfg.custom["DELETE"] /\ Executed

\* The DELETE directly follows a DELETE of the same id that was answered 200.
Repeated == DeleteExecuted /\ req.last[1] = "DELETE" /\ req.last[2] = req.id

\* The ids of the rows of a table.
IdsOf(rows) == {r.id : r \in rows}

\* The state part of C13: a DELETE answered 200 leaves no row with its id;
\* a DELETE of an id no row has, as is the id of a DELETE repeated, is
\* answered 400 and leaves the table as it was; a GET filtered on an id no
\* row has returns the empty list.
C13_Absent ==
    /\ (DeleteExecuted /\ req.resp.status = 200) => req.id \notin IdsOf(tbl)
    /\ Repeated => req.id \notin IdsOf(req.pre)
    /\ (DeleteExecuted /\ req.id \notin IdsOf(req.pre)) =>
          (req.resp.status = 400 /\ tbl = req.pre)
    /\ (req.verb = "GET" /\ req.pc = "done" /\ ~cfg.custom["GET"] /\ Executed
           /\ \E i \in Ids \ IdsOf(req.pre) : req.filter = [NoFilter EXCEPT !.id = Some(i)]) =>
          (req.resp.status = 200 /\ req.resp.body = <<>>)

\* The step part of C13: an id no row has gets a row only by the INSERT of
\* a POST.
C13_OnlyPostCreates ==
    \A i \in Ids : (i \notin IdsOf(tbl) /\ i \in IdsOf(tbl')) => req.kind = "create"

\* C13: once a DELETE of id X was answered 200, every later DELETE of X
\* with no POST creating X in between is answered 400, not 500, and leaves
\* the table unchanged, and a GET filtered on id X returns the empty list.
C13_DeleteIdempotent == []C13_Absent /\ [][C13_OnlyPostCreates]_vars

\* A DELETE repeated right after it had succeeded was answered 400 while
\* another row stayed in the table.
C13_Witness ==
    /\ Repeated /\ req.resp.status = 400
    /\ tbl # {} /\ tbl = req.pre

\* The handler body ran for a verb flagged custom, on a payload that passes
\* verify() where there is a payload.
CustomVerb ==
    /\ req.ran /\ cfg.custom[req.verb]
    /\ req.verb \in {"POST", "PUT"} => verify(req.body)

\* The arguments the default path of the verb is called with.
DefaultArgs ==
    CASE req.verb = "GET" -> {<<req.filter, ExpectedOwner>>}
      [] req.verb = "POST" ->
            {<<add_set_values(req.body, user_id_of(req.user), i, now)>> :
                i \in Ids, now \in Clock}
      [] req.verb = "PUT" -> {<<req.id, req.body, ExpectedOwner>>}
      [] req.verb = "DELETE" -> {<<<<req.id>>, ExpectedOwner>>}

\* The hook of a verb and what it returns: the overriding hooks of
\* tests/customs.rs return an empty list and a fixed id, the hooks an
\* entity does not override return 501.
HookOf(verb) ==
    CASE verb = "GET" -> "custom_read" [] verb = "POST" -> "custom_create"
      [] verb = "PUT" -> "custom_update" [] verb = "DELETE" -> "custom_delete"

HookResponse ==
    IF req.verb \notin cfg.hooks THEN Response(501, "", <<>>)
    ELSE IF req.verb = "GET" THEN Response(200, "", <<>>)
    ELSE Response(200, "", <<custom_uuid>>)

\* C14: for a verb flagged custom neither read, create, update nor delete
\* is invoked and no statement is sent; the response is the one the custom
\* hook returns, and the hook is called with the arguments the default
\* path would have been called with: the filter or payload, the id or ids
\* and the resolved owner id.
C14_CustomSupersedes ==
    CustomVerb =>
        /\ req.pc = "done"
        /\ req.kind = "none" /\ req.stmt = NoStmt /\ req.stmts = 0 /\ tbl = req.pre
        /\ req.hook = HookOf(req.verb)
        /\ req.args \in DefaultArgs
        /\ req.resp = HookResponse

\* The custom_read of tests/customs.rs answered a filtered GET.
C14_Witness ==
    /\ CustomVerb /\ req.verb = "GET" /\ "GET" \in cfg.hooks
    /\ req.filter # NoFilter /\ req.hook = "custom_read"
    /\ req.resp.status = 200 /\ req.resp.body = <<>>

\* The verb of the request is flagged custom and the entity does not
\* override its hook.
Unimplemented == cfg.custom[req.verb] /\ req.verb \notin cfg.hooks

\* C15: on a verb flagged custom whose hook the entity does not override,
\* every request the extractors and verify() accept is answered 501 Not
\* Implemented; no statement is executed and the table stays as it was.
C15_DefaultHookIs501 ==
    (Unimplemented /\ CustomVerb) =>
        /\ req.pc = "done" /\ req.resp.status = 501
        /\ req.stmts = 0 /\ tbl = req.pre

\* A DELETE of an existing row on such a verb was answered 501 and the row
\* stayed.
C15_Witness ==
    /\ Unimplemented /\ CustomVerb /\ req.verb = "DELETE"
    /\ req.resp.status = 501 /\ req.id \in IdsOf(tbl)

\* The name of the handler variant of a verb and a caller scope.
Variant(verb, scope) ==
    "http_"
    \o (CASE verb = "GET" -> "get" [] verb = "POST" -> "post"
          [] verb = "PUT" -> "put" [] verb = "DELETE" -> "delete")
    \o (CASE scope = "ANY" -> "_any" [] scope = "AUTHENTICATED" -> "_auth"
          [] scope = "ADMIN" -> "_admin")

\* The collection path and the path with an identifier.
PathOf(verb) ==
    IF verb \in {"GET", "POST"} THEN "/testObjects" ELSE "/testObjects/:id"

\* The state part of C16: the router has no route for an excluded verb and
\* one route for an included verb, on the path of the verb and with the
\* handler variant of the caller scope configured for the verb; a request
\* for an excluded verb reaches no handler, a request for an included verb
\* is taken through the identity requirement of that scope.
C16_Routes ==
    /\ \A verb \in Verbs :
          {r \in create_endpoint_router(cfg) : r.method = verb}
             = IF cfg.include[verb]
               THEN {[method |-> verb, path |-> PathOf(verb),
                      handler |-> Variant(verb, cfg.access[verb])]}
               ELSE {}
    /\ Cardinality(create_endpoint_router(cfg))
          = Cardinality({verb \in Verbs : cfg.include[verb]})
    /\ req.pc \notin Extracting =>
          IF ~cfg.include[req.verb]
          THEN Rejected /\ req.resp.status \in {404, 405} /\ req.fetches = 0
          ELSE CASE cfg.access[req.verb] = "ANY" -> req.fetches = 0 /\ req.user = None
                 [] cfg.access[req.verb] = "AUTHENTICATED" ->
                       InHandler => (IsSome(req.user) /\ Genuine)
                 [] cfg.access[req.verb] = "ADMIN" ->
                       InHandler => (IsSome(req.user) /\ Permitted)

\* C16: router synthesis registers no route for a verb include_endpoint
\* excludes and exactly one handler for a verb it includes, the variant of the
\* verb's caller scope, GET and POST on /{endpoint_name} and PUT and DELETE
\* on /{endpoint_name}/:id; the configuration the routes were chosen from
\* does not change while requests are served.
C16_RouterSynthesis == []C16_Routes /\ [][cfg' = cfg]_vars

\* A PUT was sent to the router of tests/customs.rs, which has two routes
\* and none for PUT, and reached no handler.
C16_Witness ==
    /\ ~cfg.include["PUT"] /\ req.verb = "PUT" /\ req.pc = "done" /\ ~req.ran
    /\ Cardinality(create_endpoint_router(cfg)) = 2

\* read was applied to a sequence of pairs.
FromPairs == built.kind = "pairs"

\* The reserved keys, and the pairs of the sequence that have another key.
Reserved == {"order_by", "order_dir"}
Plain == SelectSeq(built.pairs, LAMBDA kv : kv[1] \notin Reserved)

\* The predicates of a statement given as words: the groups of words that
\* AND separates between WHERE and ORDER; and its words from ORDER on.
PredicatesOf(text) ==
    IF "WHERE" \notin Range(text) THEN <<>>
    ELSE Split(SubSeq(text, (CHOOSE i \in DOMAIN text : text[i] = "WHERE") + 1,
                      (CHOOSE i \in DOMAIN text : text[i] = "ORDER") - 1), "AND")
SortingOf(text) == SubSeq(text, CHOOSE i \in DOMAIN text : text[i] = "ORDER", Len(text))

Predicates == PredicatesOf(Words(built.left.query))
Sorting == SortingOf(Words(built.left.query))

\* 1 when the statement is to have the owner predicate.
Offset == IF IsSome(built.owner) THEN 1 ELSE 0

\* The predicate made of the i-th pair that is not reserved.
PredicateOf(i) == Predicates[Offset + i]

\* The owner id, if any, and then the values of the pairs.
ExpectedBindings(plain) ==
    (IF IsSome(built.owner) THEN <<FV_STRING(Unwrap(built.owner))>> ELSE <<>>)
    \o [i \in DOMAIN plain |-> plain[i][2]]

\* The predicates preds are those of the pairs plain, in their order, after
\* the owner predicate if there is to be one.
InOrder(preds, plain, offset) ==
    /\ Len(preds) = Len(plain) + offset
    /\ offset = 1 => preds[1] = <<"user_id", "=", "$1">>
    /\ \A i \in DOMAIN plain :
          /\ Len(preds[offset + i]) \in {2, 3}
          /\ preds[offset + i][Len(preds[offset + i])] = "$" \o ToString(offset + i)
          /\ preds[offset + i][Len(preds[offset + i]) - 1] \in CompareOps
          /\ Len(preds[offset + i]) = 3 => starts_with(plain[i][1], preds[offset + i][1])

\* C17: the SELECT of the default read path has one predicate per pair that
\* is not reserved and one more iff there is an owner id; the owner
\* predicate is the first and uses $1; the others follow in the order of
\* the sequence with consecutive parameter indices; the values bound are
\* the owner id, if any, and then the values of the pairs in that order;
\* the predicates are joined by AND and by nothing else.
C17_PredicatesInOrder ==
    FromPairs =>
        /\ InOrder(Predicates, Plain, Offset)
        /\ built.left.bindings = ExpectedBindings(Plain)
        /\ Len(Sorting) = 4 /\ Sorting[2] = "BY"

\* An owner and two pairs gave three predicates, the last with $3.
C17_Witness ==
    /\ FromPairs /\ IsSome(built.owner)
    /\ Len(built.pairs) = 2 /\ Len(Plain) = 2
    /\ Predicates = << <<"user_id", "=", "$1">>, <<"name", "=", "$2">>,
                       <<"age", "<=", "$3">> >>

\* The comparison suffix a field name ends in, "" when it ends in none.
SuffixOf(key) ==
    IF Len(key) >= 3 /\ SubSeq(key, Len(key) - 2, Len(key)) \in {"_gt", "_lt", "_ge", "_le"}
    THEN SubSeq(key, Len(key) - 2, Len(key)) ELSE ""

OperatorOf(suffix) ==
    CASE suffix = "_gt" -> ">" [] suffix = "_lt" -> "<"
      [] suffix = "_ge" -> ">=" [] suffix = "_le" -> "<="

\* The words of the predicate a field name is to yield with parameter n: the
\* operator of its suffix on the name without the suffix, or equality on the
\* whole name.  A column of no characters is no word.
SuffixPredicate(key, n) ==
    IF SuffixOf(key) = "" THEN <<key, "=", "$" \o ToString(n)>>
    ELSE (IF Len(key) = 3 THEN <<>> ELSE <<SubSeq(key, 1, Len(key) - 3)>>)
         \o <<OperatorOf(SuffixOf(key)), "$" \o ToString(n)>>

BySuffix(preds, plain, offset) ==
    \A i \in DOMAIN plain : preds[offset + i] = SuffixPredicate(plain[i][1], offset + i)

\* C18: a field name ending in _gt, _lt, _ge or _le yields a predicate with
\* the operator >, <, >= or <= on the column named by the field name
\* without these three characters; a field name ending in none of them
\* yields an equality predicate on the whole name.
C18_SuffixOperators == FromPairs => BySuffix(Predicates, Plain, Offset)

\* age_ge and len_eq gave age >= $1 and len_eq = $2.
C18_Witness ==
    /\ FromPairs /\ ~IsSome(built.owner)
    /\ Predicates = << <<"age", ">=", "$1">>, <<"len_eq", "=", "$2">> >>
    /\ built.pairs[1][1] = "age_ge"

\* C19: a field name shorter than four characters yields an equality
\* predicate on the whole name, also when the name is one of _gt, _lt, _ge
\* and _le; no predicate has an empty column name.
C19_ShortNamesAreEqualities ==
    FromPairs =>
        /\ \A i \in DOMAIN Plain :
              Len(Plain[i][1]) < 4 =>
                  PredicateOf(i) = <<Plain[i][1], "=", "$" \o ToString(Offset + i)>>
        /\ \A j \in DOMAIN Predicates :
              Len(Predicates[j]) = 3 /\ IsIdent(Predicates[j][1])

\* The pairs of the sequence with a reserved key.
Keyed(key) == SelectSeq(built.pairs, LAMBDA kv : kv[1] = key)

\* The text of a FieldValue.
TextOf(v) == IF v.tag = "STRING" THEN v.val ELSE ToString(v.val)

\* The reserved pairs yield no predicate and no binding and take no
\* parameter index.
ReservedSkipped(preds) ==
    /\ Len(preds) = Len(Plain) + Offset
    /\ Len(built.left.bindings) = Len(Plain) + Offset
    /\ \A j \in DOMAIN preds : preds[j][Len(preds[j])] = "$" \o ToString(j)
    /\ \A j \in DOMAIN preds : Len(preds[j]) = 3 => preds[j][1] \notin Reserved

\* The direction is ascending exactly when an order_dir pair has the value
\* "asc".
Direction(sorting) ==
    sorting[4] = IF FV_STRING("asc") \in {kv[2] : kv \in Range(Keyed("order_dir"))}
                 THEN "ASC" ELSE "DESC"

\* C20 as stated: order_by and order_dir yield no predicate and no binding
\* and take no parameter index wherever they are in the sequence; the sort
\* column is the value of order_by when the key is present and id
\* otherwise; the direction is ascending exactly when order_dir is present
\* with the value "asc".
C20_SortKeys ==
    FromPairs =>
        /\ ReservedSkipped(Predicates)
        /\ Sorting[3] \in IF Keyed("order_by") = <<>> THEN {"id"}
                           ELSE {TextOf(kv[2]) : kv \in Range(Keyed("order_by"))}
        /\ Direction(Sorting)

\* The order_by pairs whose value is a string.
Named == SelectSeq(Keyed("order_by"), LAMBDA kv : kv[2].tag = "STRING")

\* C20, amended: as above, but the sort column is the value of the last
\* order_by pair whose value is a string, and id when there is none.
C20_SortKeysOfStrings ==
    FromPairs =>
        /\ ReservedSkipped(Predicates)
        /\ Sorting[3] = IF Named = <<>> THEN "id" ELSE Named[Len(Named)][2].val
        /\ Direction(Sorting)

\* order_dir = asc before a filter, with an owner: the filter got $2 and
\* the rows are sorted on id, ascending.
C20_Witness ==
    /\ FromPairs /\ IsSome(built.owner)
    /\ built.pairs = << <<"order_dir", FV_STRING("asc")>>, <<"age_gt", FV_INTEGER(29)>> >>
    /\ Predicates = << <<"user_id", "=", "$1">>, <<"age", ">", "$2">> >>
    /\ Sorting = <<"ORDER", "BY", "id", "ASC">>

\* update was applied to a sequence of pairs.
FromSets == built.kind = "sets"

\* The words col = $i , of the assignments of the pairs from the i-th on.
RECURSIVE AssignmentWords(_, _)
AssignmentWords(pairs, i) ==
    IF i > Len(pairs) THEN <<>>
    ELSE <<pairs[i][1], "=", "$" \o ToString(i)>>
         \o (IF i < Len(pairs) THEN <<",">> ELSE <<>>) \o AssignmentWords(pairs, i + 1)

\* The words of the UPDATE of n pairs: the assignments, the id predicate
\* with $(n+1) and, iff there is an owner id, the owner predicate with
\* $(n+2).
UpdateWords(pairs, owner) ==
    <<"UPDATE", table_name, "SET">> \o AssignmentWords(pairs, 1)
    \o <<"WHERE", "id", "=", "$" \o ToString(Len(pairs) + 1)>>
    \o (IF IsSome(owner)
        THEN <<"AND", "user_id", "=", "$" \o ToString(Len(pairs) + 2)>> ELSE <<>>)

\* Every parameter index of the words has one binding, at its position:
\* the indices are 1..n for n bindings and none occurs twice.
OneBindingEach(words, bindings) ==
    LET at == {i \in DOMAIN words : ParamIndex(words[i]) > 0}
    IN /\ {ParamIndex(words[i]) : i \in at} = 1..Len(bindings)
       /\ Cardinality(at) = Len(bindings)

SetsInOrder(words, pairs, id, owner, bindings) ==
    /\ words = UpdateWords(pairs, owner)
    /\ bindings = [i \in DOMAIN pairs |-> pairs[i][2]] \o <<FV_UUID(id)>>
                   \o (IF IsSome(owner) THEN <<FV_STRING(Unwrap(owner))>> ELSE <<>>)
    /\ OneBindingEach(words, bindings)

\* C21: the UPDATE of the default path built from a non-empty sequence of n
\* pairs assigns the columns to $1..$n in the order of the sequence, then
\* constrains id = $(n+1) and, iff there is an owner id, user_id = $(n+2);
\* the values bound are those of the pairs in order, then the id, then the
\* owner id; every parameter index has one binding at its position.
C21_UpdateInOrder ==
    FromSets =>
        SetsInOrder(Words(built.left.query), built.pairs, built.ids[1], built.owner,
                    built.left.bindings)

\* Two pairs and an owner: the id is $3 and the owner $4.
C21_Witness ==
    /\ FromSets /\ built.owner = Some("u1") /\ built.ids = <<2>>
    /\ built.pairs = << <<"age", FV_INTEGER(29)>>, <<"name", FV_STRING("Jane")>> >>
    /\ built.left.query
          = "UPDATE TestObjects SET age = $1, name = $2 WHERE id = $3 AND user_id = $4"
    /\ built.left.bindings[3] = FV_UUID(2) /\ built.left.bindings[4] = FV_STRING("u1")

\* delete was applied to a list of ids.
FromIds == built.kind = "ids"

\* The words $1 , ... , $k.
RECURSIVE ParameterWords(_, _)
ParameterWords(k, i) ==
    IF i > k THEN <<>>
    ELSE <<"$" \o ToString(i)>> \o (IF i < k THEN <<",">> ELSE <<>>)
         \o ParameterWords(k, i + 1)

\* The words of the DELETE of k ids.
DeleteWords(ids, owner) ==
    <<"DELETE", "FROM", table_name, "WHERE", "id", "IN", "(">>
    \o ParameterWords(Len(ids), 1) \o <<")">>
    \o (IF IsSome(owner)
        THEN <<"AND", "user_id", "=", "$" \o ToString(Len(ids) + 1)>> ELSE <<>>)

\* The rows the DELETE may remove: their id is in the list and, when there
\* is an owner id, their user_id is that id.
Removable(rows, ids, owner) ==
    {r \in rows : r.id \in Range(ids) /\ (IsSome(owner) => r.user_id = Unwrap(owner))}

IdsInOrder(words, ids, owner, bindings) ==
    /\ words = DeleteWords(ids, owner)
    /\ bindings = [i \in DOMAIN ids |-> FV_UUID(ids[i])]
                   \o (IF IsSome(owner) THEN <<FV_STRING(Unwrap(owner))>> ELSE <<>>)
    /\ OneBindingEach(words, bindings)

\* The text and the bindings of the DELETE built from a list of ids.
C22_Statement ==
    FromIds =>
        IdsInOrder(Words(built.left.query), built.ids, built.owner, built.left.bindings)

\* The step in which the database runs that DELETE removes only rows whose
\* id is in the list and, when there is an owner id, whose user_id is that
\* id, and adds none.
C22_Removes ==
    (FromIds /\ req.pc = "db" /\ req'.pc = "done") =>
        /\ tbl \ tbl' \subseteq Removable(tbl, built.ids, built.owner)
        /\ tbl' \subseteq tbl
        /\ req'.pre = tbl

\* C22: the DELETE of the default path built from a non-empty list of k ids
\* constrains id IN ($1,...,$k) and, iff there is an owner id,
\* user_id = $(k+1); the values bound are the k ids in order and then the
\* owner id; a row is removed only if its id is in the list and, when
\* there is an owner id, its user_id is that id, and no row is added.  The
\* rows are those of the table at the time the database runs the statement,
\* whatever other statements ran while the task waited.
C22_DeleteInList == []C22_Statement /\ [][C22_Removes]_vars

\* Ids 1 and 2 with owner u1, on a table with row 1 of u1 and row 2 of u2:
\* row 1 was removed and row 2 stayed.
C22_Witness ==
    /\ FromIds /\ built.ids = <<1, 2>> /\ built.owner = Some("u1")
    /\ built.left.query = "DELETE FROM TestObjects WHERE id IN ($1, $2) AND user_id = $3"
    /\ req.resp.status = 200
    /\ {<<r.id, r.user_id>> : r \in req.pre} = {<<1, "u1">>, <<2, "u2">>}
    /\ {<<r.id, r.user_id>> : r \in tbl} = {<<2, "u2">>}

\* The Authorization header of the request holds a value with the Bearer
\* prefix, and the Subscription header, where the route reads it, is absent
\* or holds one too: the extractor goes on to verify the token.
BearerPrefixed ==
    /\ IsSome(req.headers.Authorization)
    /\ Unwrap(req.headers.Authorization).visible
    /\ starts_with(Unwrap(req.headers.Authorization).text, "Bearer ")
    /\ (cfg.access[req.verb] = "AUTHENTICATED" /\ IsSome(req.headers.Subscription)) =>
          /\ Unwrap(req.headers.Subscription).visible
          /\ starts_with(Unwrap(req.headers.Subscription).text, "Bearer ")

\* The key-set fetch of the request failed: it was attempted and no token
\* was decoded after it.
FetchFailed == req.pc = "done" /\ req.fetches >= 1 /\ req.decodes = 0

\* The database call of a default SELECT or INSERT failed.
CallFailed == req.pc = "done" /\ req.kind \in {"read", "create"} /\ req.failed

\* C23: infrastructure failures end the request with 500 and nothing is
\* tried again.  On an AUTHENTICATED or ADMIN route the verification of
\* any token with the Bearer prefix makes one key-set fetch; when it fails
\* the request is answered 500 after that one fetch, the handler body does
\* not run and no statement is sent.  When the database call of the default
\* SELECT or INSERT fails the request is answered 500 after that one
\* statement and the table is unchanged.  No request makes more than one
\* fetch or sends more than one statement.
C23_InfrastructureIs500 ==
    /\ req.fetches <= 1 /\ req.stmts <= 1
    /\ (Protected /\ req.pc = "done" /\ BearerPrefixed) => req.fetches = 1
    /\ FetchFailed =>
          /\ req.resp.status = 500 /\ req.fetches = 1
          /\ Rejected /\ req.stmt = NoStmt
    /\ CallFailed =>
          /\ req.resp.status = 500 /\ req.stmts = 1
          /\ tbl = req.pre

\* The fetch failed for a token that does not parse, with rows in the
\* table: the answer was 500, not 401.
C23_Witness ==
    /\ FetchFailed /\ Protected
    /\ req.headers.Authorization = Bearer("zz")
    /\ req.resp.status = 500 /\ tbl # {}

\* The request is a default read whose filter has no field but order_by and
\* order_dir.
NoPredicate ==
    /\ req.pc \in {"db", "done"} /\ req.kind = "read"
    /\ \A f \in DOMAIN req.filter \ {"order_by", "order_dir"} : req.filter[f] = None

SortColumn == IF IsSome(req.filter.order_by) THEN Unwrap(req.filter.order_by) ELSE "id"

SortDirection == IF req.filter.order_dir = Some("asc") THEN "ASC" ELSE "DESC"

\* The rows the caller of a read may see: all of them, or the owner's.
Readable == {r \in req.pre : IsSome(req.owner) => r.user_id = Unwrap(req.owner)}

\* res is what the database makes of the statement of the request: it
\* accepts the statement and, when the call itself did not fail, the answer
\* is 200 with the readable rows sorted as asked.
SortedRows(res) ==
    /\ res.ok
    /\ (req.pc = "done" /\ ~req.failed) =>
          /\ req.resp.status = 200
          /\ req.resp.body \in Orderings(Readable, SortColumn, SortDirection)

\* C24 as stated: a GET whose filter yields no predicate sends a statement
\* the database accepts and is answered 200 with every row of the table, or
\* with exactly the rows of the owner id, sorted on the requested or default
\* column in the requested or default direction.
C24_NoPredicateRead ==
    NoPredicate => SortedRows(pg_select(Words(req.stmt.query), req.stmt.bindings, req.pre))

\* The same, for an order_by that names a column of the table.
C24_NoPredicateReadOfColumn ==
    (NoPredicate /\ SortColumn \in ColumnNames) =>
        SortedRows(pg_select(Words(req.stmt.query), req.stmt.bindings, req.pre))

\* The request was a PUT of the default path answered 200.
Updated == req.pc = "done" /\ req.kind = "update" /\ req.resp.status = 200

\* The row r with the columns of the payload of the request set.
WithPayload(r) ==
    LET pairs == key_value_pairs_input(req.body)
    IN [c \in ColumnNames |->
           IF \E i \in DOMAIN pairs : pairs[i][1] = c
           THEN pairs[CHOOSE i \in DOMAIN pairs : pairs[i][1] = c][2].val
           ELSE r[c]]

\* C25: a default PUT on an id that is answered 200 found one row with that
\* id and left the table as it was but for that row, which has the values
\* of the payload in the columns of its key-value sequence and its previous
\* values in every other column (id, user_id, date_created, status).
C25_PutFrame ==
    Updated =>
        /\ Cardinality(Target) = 1
        /\ \A r \in Target :
              /\ tbl = (req.pre \ {r}) \cup {WithPayload(r)}
              /\ \A c \in {"id", "user_id", "date_created", "status"} :
                    WithPayload(r)[c] = r[c]

\* A caller with two rows changed one of them: the other is as it was.
C25_Witness ==
    /\ Updated /\ IsSome(req.owner) /\ tbl # req.pre
    /\ \E r1, r2 \in req.pre :
          /\ r1.id = req.id /\ r2.id # req.id
          /\ r1.user_id = Unwrap(req.owner) /\ r2.user_id = Unwrap(req.owner)
          /\ r2 \in tbl /\ r1 \notin tbl

\* A DELETE with a valid admin token reached the handler of a route of
\* caller scope ADMIN and object scope OWNER.
AdminOwnerDelete ==
    /\ AdminDelete /\ cfg.object["DELETE"] = "OWNER"
    /\ Permitted /\ req.ran

\* The subject of the token of the caller.
Subject == Unwrap(req.user).user_id

\* The statement ends with the owner predicate on the second parameter,
\* bound to the subject.
OwnerIsSubject(words) ==
    /\ req.owner = Some(Subject)
    /\ SubSeq(words, Len(words) - 3, Len(words)) = <<"AND", "user_id", "=", "$2">>
    /\ req.stmt.bindings = <<FV_UUID(req.id), FV_STRING(Subject)>>

\* C26: on a DELETE route of caller scope ADMIN and object scope OWNER the
\* owner predicate names the subject of the admin token; a DELETE of a row
\* of another user is answered 400 and the row stays, and a row that is
\* removed has the id of the request and the subject as its user_id.
C26_AdminDeletesOwnRows ==
    AdminOwnerDelete =>
        /\ OwnerIsSubject(Words(req.stmt.query))
        /\ Executed =>
              \A r \in Target :
                  r.user_id # Subject => (req.resp.status = 400 /\ r \in tbl)
        /\ \A r \in req.pre \ tbl : r.id = req.id /\ r.user_id = Subject

\* The admin asked to delete a row of another user: 400, the row is there.
C26_Witness ==
    /\ AdminOwnerDelete /\ Executed /\ req.resp.status = 400
    /\ \E r \in Target : r.user_id # Subject /\ r \in tbl

\* The owner a POST stamps: the subject of the verified token on a route of
\* caller scope AUTHENTICATED or ADMIN, the anonymous default on a route of
\* caller scope ANY.
Stamp == IF Protected THEN Subject ELSE "nobody"

\* The configuration with another object scope for POST.
Rescoped(scope) == [cfg EXCEPT !.object = [@ EXCEPT !["POST"] = scope]]

\* The body of the POST handler does the same under either object scope.
ScopeBlind ==
    \A scope \in {"ALL", "OWNER"}, new_id \in Ids, now \in Clock :
        _http_post(Rescoped(scope), req.body, user_id_of(req.user), new_id, now)
            = _http_post(cfg, req.body, user_id_of(req.user), new_id, now)

\* C27: a POST stamps the owner from the identity of the caller whatever
\* the object scope of POST.  On a route of caller scope AUTHENTICATED or
\* ADMIN the handler has the verified identity, on a route of caller scope
\* ANY it has none, also when a token is sent; the user_id bound by the
\* INSERT, that of the row created and that of the object given to
\* custom_create are the subject in the first case and the anonymous
\* default in the second; the handler body does the same under object
\* scope ALL and OWNER.
C27_PostStampsCaller ==
    (req.verb = "POST" /\ InHandler) =>
        /\ IsSome(req.user) <=> Protected
        /\ req.pc = "handler" => ScopeBlind
        /\ req.kind = "create" =>
              /\ req.stmt.bindings[6] = FV_STRING(Stamp)
              /\ (req.pc = "done" /\ req.resp.status = 200) =>
                    \E r \in tbl \ req.pre :
                        /\ r.id = req.resp.body[1] /\ r.user_id = Stamp
                        /\ tbl = req.pre \cup {r}
        /\ req.hook = "custom_create" => req.args[1].user_id = Stamp

\* An identified caller created a row under object scope ALL: the row is
\* stamped with the subject.
C27_Witness ==
    /\ req.verb = "POST" /\ req.pc = "done" /\ req.resp.status = 200
    /\ Protected /\ cfg.object["POST"] = "ALL" /\ req.kind = "create"
    /\ \E r \in tbl \ req.pre : r.user_id = Subject /\ Subject = "u2"

\* The request has no token, or one without the Bearer prefix, or one that
\* was verified under the key set and failed, or lacks the admin permission
\* the route asks for.
TokenFails ==
    \/ ~IsSome(req.headers.Authorization)
    \/ /\ Unwrap(req.headers.Authorization).visible
       /\ ~starts_with(Unwrap(req.headers.Authorization).text, "Bearer ")
    \/ /\ Unwrap(req.headers.Authorization).visible
       /\ KeySetFetched
       /\ ~Genuine \/ (cfg.access[req.verb] = "ADMIN" /\ ~Permitted)

\* The body of the request is malformed or fails verify().
BadPayload == ~req.body.ok \/ ~verify(req.body)

\* C28: on a route of caller scope AUTHENTICATED or ADMIN the identity is
\* extracted before the body is parsed and before verify(): a POST or PUT
\* whose token fails is answered 401 before the handler body runs, also
\* when its body is malformed or its payload fails verify(); with a token
\* that passes, the malformed body is answered 422 and the invalid payload
\* 400.
C28_IdentityBeforePayload ==
    (Protected /\ req.pc = "done" /\ req.verb \in {"POST", "PUT"}) =>
        /\ TokenFails => (req.resp.status = 401 /\ Rejected)
        /\ (BadPayload /\ IsSome(req.user)) =>
              /\ req.resp.status = IF req.body.ok THEN 400 ELSE 422
              /\ req.ran <=> req.body.ok
              /\ req.stmts = 0 /\ tbl = req.pre

\* A PUT with a malformed body and a token whose signature does not verify
\* was answered 401.
C28_Witness ==
    /\ Protected /\ req.pc = "done" /\ req.verb = "PUT"
    /\ ~req.body.ok /\ req.headers.Authorization = Bearer("tSg")
    /\ KeySetFetched /\ req.resp.status = 401

\* The statement of task i was executed by the database.
Ran(i) == req[i].pc = "done" /\ req[i].stmts = 1 /\ ~req[i].failed

\* The owner predicate of the statement of task i admits the row.
Passes(i, r) == IsSome(req[i].owner) => r.user_id = Unwrap(req[i].owner)

\* The rows the statement of task i found with its id and admitted.
Found(i) == {r \in req[i].pre : r.id = req[i].id /\ Passes(i, r)}

\* Both tasks ran a default DELETE of one id whose row was in the table
\* and is admitted by the owner predicates of both.
SameRowDeletes ==
    /\ Ran(1) /\ Ran(2)
    /\ req[1].kind = "delete" /\ req[2].kind = "delete"
    /\ req[1].id = req[2].id
    /\ \E r \in req[1].pre \cup req[2].pre :
          r.id = req[1].id /\ Passes(1, r) /\ Passes(2, r)

\* Task 2 ran a default PUT of the id task 1 ran a default DELETE of.
PutAgainstDelete ==
    /\ Ran(1) /\ Ran(2)
    /\ req[1].kind = "delete" /\ req[2].kind = "update"
    /\ req[1].id = req[2].id

\* C29: however the steps of two concurrent requests interleave, of two
\* default DELETEs of one existing id that both pass the owner predicate one
\* is answered 200 and the other 400, and no row has the id afterwards; a
\* default PUT racing with a DELETE of its id is answered 200 exactly when
\* its statement found the row, and when both are answered 200 the row the
\* DELETE removed is the row the PUT wrote.
C29_OneDeleteWins ==
    /\ SameRowDeletes =>
          /\ {req[1].resp.status, req[2].resp.status} = {200, 400}
          /\ \A r \in tbl : r.id # req[1].id
    /\ PutAgainstDelete =>
          /\ req[2].resp.status = IF Found(2) # {} THEN 200 ELSE 400
          /\ (req[1].resp.status = 200 /\ req[2].resp.status = 200) =>
                /\ Found(1) = {[r EXCEPT !.name = req[2].body.name,
                                         !.age = req[2].body.age] : r \in Found(2)}
                /\ \A r \in tbl : r.id # req[1].id

\* The DELETE of task 2 ran first and removed the row; that of task 1, with
\* the same owner predicate, found none and was answered 400.
C29_Witness ==
    /\ SameRowDeletes
    /\ req[1].resp.status = 400 /\ req[2].resp.status = 200
    /\ Found(1) = {} /\ Found(2) # {}
    /\ IsSome(req[1].owner)

\* A custom_* hook was called for the request.
HookCalled == req.hook # ""

\* The owner id the hook was given: its last argument.
HookOwner == req.args[Len(req.args)]

\* C30: the object scope is resolved and the payload validated before the
\* choice between the custom hook and the default path.  custom_create and
\* custom_update are called only with a payload for which verify() holds;
\* custom_read, custom_update and custom_delete are given an owner id only
\* when the object scope of the verb is OWNER and the caller has an
\* identity, and then it is the subject; under object scope ALL, and for a
\* caller without identity, they are given none.
C30_HooksAreBound ==
    HookCalled =>
        /\ cfg.custom[req.verb] /\ req.hook = HookOf(req.verb)
        /\ req.verb \in {"POST", "PUT"} => (req.body.ok /\ verify(req.body))
        /\ req.verb \in {"GET", "PUT", "DELETE"} =>
              HookOwner = IF cfg.object[req.verb] = "OWNER" /\ IsSome(req.user)
                          THEN Some(Subject) ELSE None

\* custom_read was called for an identified caller under object scope ALL:
\* it was given no owner id.
C30_Witness ==
    /\ HookCalled /\ req.verb = "GET" /\ cfg.object["GET"] = "ALL"
    /\ IsSome(req.user) /\ HookOwner = None

====
